---------------------------- MODULE Spec2Model ----------------------------
(***************************************************************************)
(* A model of the watermarking core of aigcguard:                          *)
(*   - the fingerprint corpus cache of app/service/enhanced_watermark.py   *)
(*     together with its two callers in app/api/endpoints/watermark.py     *)
(*     (the /embed endpoint and its background persist task) and the       *)
(*     matcher loop that reads it;                                         *)
(*   - the QIM extraction and the adaptive recovery controller of          *)
(*     algorithms/fingerprint_engine.py on an engine shared by requests;   *)
(*   - the block enumeration of the same engine.                           *)
(*                                                                         *)
(* Requests run in a thread pool.  A thread can lose the processor at a    *)
(* network round trip (a Supabase query) and between the statements of     *)
(* the engine's extraction calls (each a long numpy computation); the      *)
(* actions below are cut at those points.                                  *)
(***************************************************************************)
EXTENDS Integers, Sequences, FiniteSets, TLC

\* ------------------------------------------------------------------ bounds
MaxTime == 240          \* the clock stops advancing here
TickStep == 60          \* seconds the clock advances in one Tick

NBlocks == 64           \* blocks available in a sample plane (16 hex characters)
MaxDim == 7             \* plane heights and widths 0..MaxDim
MaxBs == 3              \* block sizes 1..MaxBs
MaxCount == 5           \* bit counts 0..MaxCount
MaxCoeff == 40          \* coefficients -MaxCoeff..MaxCoeff
MaxErr == 15            \* errors -MaxErr..MaxErr added to an embedded coefficient
PlaneBlocks == 256      \* blocks available in a plane that takes a full fingerprint
MaxTextLen == 4         \* characters in a text handed to the text codec
MaxPayloadLen == 2      \* characters in a text watermark payload
MaxHexLen == 3          \* characters in a hex string handed to the converters
MaxBitLen == 9          \* bits in a bit string handed to _binary_to_hex
MaxSimLen == 9          \* characters in a fingerprint handed to fingerprint_similarity
MaxFrames == 3          \* frames in a short sample video
MaxFps == 2             \* frame rates 0..MaxFps and twice MaxFps
MaxTasks == 2           \* tasks submitted to the queue in one run
MaxHeadroom == 2        \* embeds left in the user's quota at the start: 0..MaxHeadroom
MaxCorpus == 3          \* rows of the cached corpus a matcher call sees: 0..MaxCorpus
MaxEmbedCalls == 3      \* embed_watermark calls on one image
MaxProfileTime == 450   \* the clock of the profile cache runs from 0 to MaxProfileTime
ProfileTick == 150      \* in steps of ProfileTick

\* ------------------------------------------------------- program constants
ASSETS_CACHE_TTL == 120
QIM_STEP_DEFAULT == 30      \* FingerprintEngine.QIM_STEP
LEGACY_QIM_STEPS == <<8>>   \* FingerprintEngine.LEGACY_QIM_STEPS
MIN_STRENGTH == 15          \* extract_dct_adaptive: `if strength >= 15`
DETECT_LENGTH == 256        \* detect_watermark: extract_dct_adaptive(img, length=256)
QUICK_BITS == 32            \* _extract_enhanced_watermark: quick_extract_dct(sample_bits=32)
FINGERPRINT_BITS == 256     \* FingerprintEngine.FINGERPRINT_BITS
ZW_SPA == 8203              \* TextWatermarkService.ZW_SPA, U+200B, bit 0
ZW_NON == 8204              \* TextWatermarkService.ZW_NON, U+200C, bit 1
ZW_JOIN == 8205             \* TextWatermarkService.ZW_JOIN, U+200D, boundary
FALLBACK_FPS == 25          \* embed_video / detect_video: `if fps <= 0: fps = 25`
DETECT_MAX_SECONDS == 10    \* detect_video: max_seconds = 10
DETECT_EVERY_HALF_SECONDS == 1  \* detect_video: detect_every_seconds = 0.5
MIN_STRIPPED_LENGTH == 8    \* detect_video: `len(extracted.strip('0')) >= 8`
MAX_WORKERS == 3            \* task_queue = TaskQueue(max_workers=3)
FREE_EMBED_TOTAL == 50      \* expected_total of the plan "free"
TOP_K_DEFAULT == 10         \* _find_all_matches: top_k: int = 10
PROFILE_CACHE_TTL == 300    \* _PROFILE_CACHE_TTL = 300
MIN_FINGERPRINT_STRENGTH == 10  \* self.min_fingerprint_strength = 10
MIN_QUICK_LENGTH == 8       \* _extract_enhanced_watermark: len(extracted) >= 8
MIN_INFO_PARTS == 5         \* _decode_watermark_info: len(parts) >= 5
PHASH_THRESHOLD == 20       \* _find_all_matches: phash_threshold: int = 20
PHASH_BONUS == 30           \* combined_score += (1 - phash_dist / phash_threshold) * 30
TEMPORAL_BONUS == 10        \* combined_score += 10
MIN_SIMILARITY_PERCENT == 30    \* min_similarity: float = 0.30, compared as min_similarity * 100
DB_MATCH_FLOOR == 60        \* has_db_match: best_match.get('similarity', 0) >= 60
VERY_STRONG == 20           \* has_very_strong_fingerprint = fingerprint_strength >= 20
NO_PHASH == 999             \* phash_dist when either perceptual hash is missing
CANDIDATES_SHOWN == 5       \* candidate_list: all_matches[:5]

VARIABLES
    \* ---- corpus cache and its callers
    now,              \* time.time(), in seconds
    assets_cache,     \* the dict _assets_cache: keys "data" and "expires", each may be absent
    db,               \* the rows of table watermarked_assets, in insertion order
    sb_client,        \* _cached_service_client is set
    reader,           \* per detection request: its position in _find_all_matches
    embedPc,          \* per new asset: the position of its /embed request and persist task
    \* ---- what the run has done so far, for stating the properties
    invalidatedPending,   \* invalidate_assets_cache ran and no _get_cached_assets call began since
    injSince,             \* records injected since data was last stored from persistence
    lastGood,             \* the rows last stored from persistence
    seededByInject,       \* the cached list was created by inject_asset_to_cache, not by a reload
    \* ---- the fingerprint engine shared by the requests of one service
    QIM_STEP,         \* the engine's step field, as `self.QIM_STEP` reads it
    thr,              \* per request thread: its position in the engine and its locals
    \* ---- one plane handed to embed_dct and to extract_dct
    plane,            \* its size, the block size, the two bit counts, the positions computed
    \* ---- one coefficient carried through the QIM embedder and extractor
    qim,              \* the coefficient, the bit, the step, the error added in between
    \* ---- one image carried through embed_dct, extract_dct and fingerprint_similarity
    rt,               \* the plane, the fingerprint, the watermarked pixels, what was read back
    \* ---- one text carried through TextWatermarkService
    tw,               \* the input text, the payload, the marked text, what was extracted
    \* ---- one string carried through _hex_to_binary / _binary_to_hex
    hx,               \* the input (hex or bits), the bits, the hex string returned
    \* ---- one pair of fingerprints handed to fingerprint_similarity
    sim,              \* the two fingerprints and the similarity returned
    \* ---- one call of VideoWatermarkService.embed_video or detect_video
    vid,              \* the video, the parameters, the loop's locals, the frames written
    \* ---- the process-wide TaskQueue instance of task_queue.py
    task_queue,       \* its tasks, its asyncio queue, its workers, the puts not yet run
    \* ---- the embed quota of one signed-in user (api/endpoints/watermark.py)
    quota_cache,      \* _quota_cache: the user's entry, when there is one
    profiles,         \* the user's row of the profiles table
    embed_req,        \* per /embed request: its position and its locals
    \* ---- one call of detect_watermark or of _find_all_matches
    det,              \* the cached corpus, the arguments, the candidates and the verdict
    \* ---- one image handed again and again to EnhancedWatermarkService.embed_watermark
    dup,              \* what a quick extraction reads from the image, the fingerprints embedded, the last result
    \* ---- the owner display names (enhanced_watermark.py, _get_cached_profiles)
    profile_cache,    \* _profile_cache: {"data": map, "expires": time}, empty at start
    profile_call      \* the last _get_cached_profiles call, and the batch the cached map was loaded for

cacheVars == <<now, assets_cache, db, sb_client, reader, embedPc,
               invalidatedPending, injSince, lastGood, seededByInject>>

engineVars == <<QIM_STEP, thr>>

blockVars == <<plane>>

\* the pure functions of the engine and of the text codec, one value each
pureVars == <<qim, rt, tw, hx, sim, vid>>

\* the services around the engine: task queue, matcher, profile cache, quota
quotaVars == <<quota_cache, profiles, embed_req>>

profileVars == <<profile_cache, profile_call>>

serviceVars == <<task_queue, quotaVars, det, dup, profileVars>>

vars == <<cacheVars, engineVars, blockVars, pureVars, serviceVars>>

\* ------------------------------------------------------------- small sets
Readers == {"d1"}
OldRecords == {"r0"}
NewRecords == {"r1", "r2"}
Records == OldRecords \cup NewRecords

Range(s) == {s[i] : i \in 1..Len(s)}

\* ------------------------------------------------------------ Python dict
EmptyDict == [k \in {} |-> 0]
DictHas(d, k) == k \in DOMAIN d
DictGet(d, k, default) == IF k \in DOMAIN d THEN d[k] ELSE default
DictSet(d, k, v) == [x \in (DOMAIN d) \cup {k} |-> IF x = k THEN v ELSE d[x]]

\* ------------------------------------------------- _get_cached_assets, l.36
\* (mutant) the cached list is still served at the instant it expires
CacheHitAtExpiry(cache, t) ==
    DictHas(cache, "data") /\ t <= DictGet(cache, "expires", 0)

\* data is not None and time.time() < expires (0 when the key is absent)
CacheHit(cache, t) ==
    DictHas(cache, "data") /\ t < DictGet(cache, "expires", 0)

\* `_assets_cache.get("data") or []`: the cached list itself when it is a
\* non-empty list, otherwise a fresh empty list.
StaleOrEmpty(cache) ==
    IF DictHas(cache, "data") /\ cache["data"] # <<>> THEN cache["data"] ELSE <<>>

StaleIsLive(cache) == DictHas(cache, "data") /\ cache["data"] # <<>>

\* lines 51-52: store the rows and re-arm the expiry
StoreReload(cache, rows, t) ==
    DictSet(DictSet(cache, "data", rows), "expires", t + ASSETS_CACHE_TTL)

\* ------------------------------------------------ inject_asset_to_cache
InjectAsset(cache, r, t) ==
    IF DictHas(cache, "data")
    THEN DictSet(cache, "data", Append(cache["data"], r))
    ELSE DictSet(DictSet(cache, "data", <<r>>), "expires", t + ASSETS_CACHE_TTL)

\* ---------------------------------------------- invalidate_assets_cache
InvalidateAssets(cache) == EmptyDict

\* The state of a process that has just started: nothing cached, no request
IdleReader ==
    [pc |-> "idle", path |-> "none", list |-> <<>>, aliased |-> FALSE,
     snap |-> <<>>, idx |-> 0, rows |-> <<>>, at |-> 0,
     afterInv |-> FALSE, ackedAtStart |-> {}, missingInj |-> {}, corpus |-> <<>>]

CacheAtRest ==
    /\ now = 0
    /\ assets_cache = EmptyDict
    /\ sb_client = FALSE
    /\ reader = [d \in Readers |-> IdleReader]
    /\ embedPc = [r \in NewRecords |-> "idle"]
    /\ invalidatedPending = FALSE
    /\ injSince = {}
    /\ lastGood = <<>>
    /\ seededByInject = FALSE

\* ========================================================= fingerprint engine
Min(a, b) == IF a <= b THEN a ELSE b

\* np.round: to the nearest integer, halves to the even one (n / d, d > 0)
RoundHalfEven(n, d) ==
    LET q == n \div d
        r == n % d
    IN  IF 2 * r < d THEN q
        ELSE IF 2 * r > d THEN q + 1
        ELSE IF q % 2 = 0 THEN q ELSE q + 1

\* _BIN2HEX / _HEX2BIN: the sixteen hex characters, by value
HEXCHARS == <<"0", "1", "2", "3", "4", "5", "6", "7",
              "8", "9", "a", "b", "c", "d", "e", "f">>

HexValue(c) == CHOOSE v \in 0..15 : HEXCHARS[v + 1] = c

IsHex(c) == \E v \in 0..15 : HEXCHARS[v + 1] = c

\* str.lower() on the characters a fingerprint may hold
Lower(c) ==
    CASE c = "A" -> "a" [] c = "B" -> "b" [] c = "C" -> "c"
      [] c = "D" -> "d" [] c = "E" -> "e" [] c = "F" -> "f" [] OTHER -> c

\* (mutant) the range advances by one whatever the step
PyRangeUnitStep(stop, step) == [i \in 1..(IF stop <= 0 THEN 0 ELSE stop) |-> i - 1]

\* range(0, stop, step), step > 0
PyRange(stop, step) ==
    [i \in 1..(IF stop <= 0 THEN 0 ELSE (stop + step - 1) \div step) |-> (i - 1) * step]

\* (mutant) the four bits of a group are read least significant first
binary_to_hex_lsb_first(binary) ==
    LET starts == PyRange(Len(binary) - 3, 4)
    IN  [k \in 1..Len(starts) |->
            LET i == starts[k]
            IN  HEXCHARS[1 + binary[i + 1] + 2 * binary[i + 2]
                           + 4 * binary[i + 3] + 8 * binary[i + 4]]]

\* _binary_to_hex: `for i in range(0, len(binary) - 3, 4)`, one character per
\* chunk binary[i:i+4]
binary_to_hex(binary) ==
    LET starts == PyRange(Len(binary) - 3, 4)
    IN  [k \in 1..Len(starts) |->
            LET i == starts[k]
            IN  HEXCHARS[1 + 8 * binary[i + 1] + 4 * binary[i + 2]
                           + 2 * binary[i + 3] + binary[i + 4]]]

\* _hex_to_binary: four bits per character of the lower-cased string, a
\* character that is no hex digit giving none (`_HEX2BIN.get(c, '')`)
hex_to_binary(hex_str) ==
    LET hex == SelectSeq([i \in 1..Len(hex_str) |-> Lower(hex_str[i])], IsHex)
    IN
    [i \in 1..(4 * Len(hex)) |->
        LET v == HexValue(hex[((i - 1) \div 4) + 1])
            k == (i - 1) % 4
        IN  IF k = 0 THEN v \div 8
            ELSE IF k = 1 THEN (v \div 4) % 2
            ELSE IF k = 2 THEN (v \div 2) % 2
            ELSE v % 2]

\* _hex_to_bits_array: padded with zero bits to `length`, cut to `length`
hex_to_bits_array(hex, length) ==
    LET b == hex_to_binary(hex)
    IN  [i \in 1..length |-> IF i <= Len(b) THEN b[i] ELSE 0]

\* A plane is given by the (2,3) DCT coefficient of each of its blocks, in
\* the order _block_positions lists them.

\* (mutant) the extractor quantises by the full step
QimBitFullStep(c, Q) == RoundHalfEven(c, Q) % 2

\* extract_dct, l.233-236: half_quants = round(c / (Q/2)); bit = half_quants % 2
QimBit(c, Q) == RoundHalfEven(c, Q \div 2) % 2

\* embed_dct, l.189-192: base = round(c / Q) * Q; c' = base + bit * (Q / 2)
QimEmbed(c, bit, Q) == RoundHalfEven(c, Q) * Q + bit * (Q \div 2)

\* extract_dct with Q the step it read from the engine
extract_dct(coeffs, length, Q) ==
    binary_to_hex([i \in 1..Min(length, Len(coeffs)) |-> QimBit(coeffs[i], Q)])

\* embed_dct with Q the step it read from the engine
embed_dct(coeffs, fingerprint, Q) ==
    LET bits == hex_to_bits_array(fingerprint, FINGERPRINT_BITS)
        n_embed == Min(FINGERPRINT_BITS, Len(coeffs))
    IN  [i \in 1..Len(coeffs) |->
            IF i <= n_embed THEN QimEmbed(coeffs[i], bits[i], Q) ELSE coeffs[i]]

\* sum(1 for c in fp if c != '0')
Strength(fp) == Cardinality({i \in 1..Len(fp) : fp[i] # "0"})

\* (mutant) the last probe always replaces the best result so far
LegacyAlwaysTaken(legacy_strength, best_strength) == TRUE

\* `if legacy_strength > best_strength` (l.280)
LegacyIsBetter(legacy_strength, best_strength) == legacy_strength > best_strength

\* The controller as a function of the image and the current step q: the
\* strongest extraction along the ladder, the earlier one kept on ties.
RECURSIVE BestOfLadder(_, _, _, _)
BestOfLadder(img, best_fp, best_q, i) ==
    IF i > Len(LEGACY_QIM_STEPS) THEN <<best_fp, best_q>>
    ELSE LET f == extract_dct(img, DETECT_LENGTH, LEGACY_QIM_STEPS[i])
         IN  IF Strength(f) > Strength(best_fp)
             THEN BestOfLadder(img, f, LEGACY_QIM_STEPS[i], i + 1)
             ELSE BestOfLadder(img, best_fp, best_q, i + 1)

\* extract_dct_adaptive(image, length=256) on an engine no other call uses,
\* whose step is q when the call begins
extract_dct_adaptive(img, q) ==
    LET fp == extract_dct(img, DETECT_LENGTH, q)
    IN  IF Strength(fp) >= MIN_STRENGTH THEN <<fp, q>>
        ELSE BestOfLadder(img, fp, q, 1)

\* ---- sample planes: the first k blocks hold coefficient c1, the others c2.
\* 0 reads as bit 0 under both steps, 4 as bit 1 under step 8 only, 15 as
\* bit 1 under step 30 only, -11 as bit 1 under both.
Plane(c1, k, c2) == [i \in 1..NBlocks |-> IF i <= k THEN c1 ELSE c2]
Images ==
    {Plane(0, 0, 0),                \* no signal under either step
     Plane(15, 0, 15),              \* full strength under 30, none under 8
     Plane(4, 0, 4),                \* none under 30, full strength under 8
     Plane(-11, 0, -11),            \* full strength under both
     Plane(15, NBlocks - 4, 0),     \* just at the threshold under 30
     Plane(15, NBlocks - 8, 4),     \* below the threshold under 30, weaker under 8
     Plane(-11, NBlocks - 8, 0),    \* below the threshold, equal under both
     Plane(-11, NBlocks - 8, 4)}    \* below the threshold under 30, full under 8

SampleFingerprints == {[i \in 1..64 |-> "f"],
                       [i \in 1..64 |-> IF i % 2 = 1 THEN "a" ELSE "5"]}

Threads == {"t1", "t2"}

IdleThread ==
    [pc |-> "idle", op |-> "none", image |-> <<>>,
     q1 |-> 0, fp |-> <<>>, strength |-> 0,
     saved_q |-> 0, best_fp |-> <<>>, best_strength |-> 0, best_q |-> 0,
     li |-> 0, probed |-> <<>>, result_fp |-> <<>>, result_q |-> 0,
     q_used |-> 0, out |-> <<>>]

EngineAtRest ==
    /\ QIM_STEP = QIM_STEP_DEFAULT
    /\ thr = [t \in Threads |-> IdleThread]

\* The engine leaves the cache and the block planner alone.
OutsideEngine == UNCHANGED <<cacheVars, blockVars, pureVars, serviceVars>>

\* extract_dct_adaptive, l.267: fp = self.extract_dct(image, length), which
\* reads Q = self.QIM_STEP (l.222)
adaptive_extract_primary(t, img) ==
    /\ thr[t].pc = "idle"
    /\ OutsideEngine
    /\ thr' = [thr EXCEPT ![t] =
          [@ EXCEPT !.pc = "a_check", !.op = "adaptive", !.image = img,
                    !.q1 = QIM_STEP,
                    !.fp = extract_dct(img, DETECT_LENGTH, QIM_STEP)]]
    /\ UNCHANGED QIM_STEP

\* l.268-274: the strength test; return fp with the step the field holds now,
\* or save the field and start the ladder
adaptive_check(t) ==
    /\ thr[t].pc = "a_check"
    /\ OutsideEngine
    /\ LET s == Strength(thr[t].fp)
       IN  IF s >= MIN_STRENGTH
           THEN thr' = [thr EXCEPT ![t] =
                   [@ EXCEPT !.pc = "done", !.strength = s,
                             !.result_fp = thr[t].fp, !.result_q = QIM_STEP]]
           ELSE thr' = [thr EXCEPT ![t] =
                   [@ EXCEPT !.pc = "a_set", !.strength = s, !.saved_q = QIM_STEP,
                             !.best_fp = thr[t].fp, !.best_strength = s,
                             !.best_q = QIM_STEP, !.li = 1]]
    /\ UNCHANGED QIM_STEP

\* l.276-277: `for legacy_q in LEGACY_QIM_STEPS: self.QIM_STEP = legacy_q`
adaptive_set_legacy(t) ==
    /\ thr[t].pc = "a_set"
    /\ OutsideEngine
    /\ IF thr[t].li <= Len(LEGACY_QIM_STEPS)
       THEN /\ QIM_STEP' = LEGACY_QIM_STEPS[thr[t].li]
            /\ thr' = [thr EXCEPT ![t] =
                   [@ EXCEPT !.pc = "a_probe",
                             !.probed = Append(@, LEGACY_QIM_STEPS[thr[t].li])]]
       ELSE /\ thr' = [thr EXCEPT ![t].pc = "a_finally"]
            /\ UNCHANGED QIM_STEP

\* l.278-281: legacy_fp = self.extract_dct(image, length), which reads the
\* field again; keep it if it is stronger
adaptive_probe(t) ==
    /\ thr[t].pc = "a_probe"
    /\ OutsideEngine
    /\ LET legacy_q == LEGACY_QIM_STEPS[thr[t].li]
           legacy_fp == extract_dct(thr[t].image, DETECT_LENGTH, QIM_STEP)
           legacy_strength == Strength(legacy_fp)
       IN  IF LegacyIsBetter(legacy_strength, thr[t].best_strength)
           THEN thr' = [thr EXCEPT ![t] =
                   [@ EXCEPT !.pc = "a_set", !.li = @ + 1, !.best_fp = legacy_fp,
                             !.best_strength = legacy_strength, !.best_q = legacy_q]]
           ELSE thr' = [thr EXCEPT ![t] = [@ EXCEPT !.pc = "a_set", !.li = @ + 1]]
    /\ UNCHANGED QIM_STEP

\* l.282-287: finally self.QIM_STEP = saved_q; return best_fp, best_q
adaptive_finally(t) ==
    /\ thr[t].pc = "a_finally"
    /\ OutsideEngine
    /\ QIM_STEP' = thr[t].saved_q
    /\ thr' = [thr EXCEPT ![t] =
          [@ EXCEPT !.pc = "done", !.result_fp = thr[t].best_fp,
                    !.result_q = thr[t].best_q]]

\* EnhancedWatermarkService.embed_watermark, l.343: self.engine.embed_dct,
\* which reads Q = self.QIM_STEP (l.174)
engine_embed_dct(t, img, fingerprint) ==
    /\ thr[t].pc = "idle"
    /\ OutsideEngine
    /\ thr' = [thr EXCEPT ![t] =
          [@ EXCEPT !.pc = "done", !.op = "embed_dct", !.image = img,
                    !.q_used = QIM_STEP,
                    !.out = embed_dct(img, fingerprint, QIM_STEP)]]
    /\ UNCHANGED QIM_STEP

\* _extract_enhanced_watermark, l.251: quick_extract_dct(image, sample_bits=32),
\* a plain extract_dct on the shared engine
engine_quick_extract(t, img) ==
    /\ thr[t].pc = "idle"
    /\ OutsideEngine
    /\ thr' = [thr EXCEPT ![t] =
          [@ EXCEPT !.pc = "done", !.op = "extract_dct", !.image = img,
                    !.q_used = QIM_STEP,
                    !.result_fp = extract_dct(img, QUICK_BITS, QIM_STEP)]]
    /\ UNCHANGED QIM_STEP

\* the request ends; its thread takes the next one
request_done(t) ==
    /\ thr[t].pc = "done"
    /\ OutsideEngine
    /\ thr' = [thr EXCEPT ![t] = IdleThread]
    /\ UNCHANGED QIM_STEP


\* ============================================================ block planner
\* _block_positions, l.116-123: the two nested loops; i and j index the row
\* and column ranges, `acc` is `positions` and Len(acc) is k
RECURSIVE BlockLoop(_, _, _, _, _, _)
BlockLoop(rows, cols, i, j, n, acc) ==
    IF i > Len(rows) THEN acc
    ELSE IF j > Len(cols) THEN BlockLoop(rows, cols, i + 1, 1, n, acc)
    ELSE IF Len(acc) >= n THEN acc
    ELSE BlockLoop(rows, cols, i, j + 1, n, Append(acc, <<rows[i], cols[j]>>))

\* (mutant) the n positions are cut from the end of the enumeration
block_positions_tail(h, w, bs, n) ==
    LET rows == PyRange(h - bs, bs)
        cols == PyRange(w - bs, bs)
        total == Len(rows) * Len(cols)
        all == BlockLoop(rows, cols, 1, 1, total, <<>>)
        m == Min(n, total)
    IN  SubSeq(all, total - m + 1, total)

\* _block_positions(h, w, bs, n), l.108-123
block_positions(h, w, bs, n) ==
    LET cols_per_row == IF w > bs THEN Len(PyRange(w - bs, bs)) ELSE 0
        total == IF h > bs THEN Len(PyRange(h - bs, bs)) * cols_per_row ELSE 0
        m == Min(n, total)
        col_positions == PyRange(w - bs, bs)
    IN  BlockLoop(PyRange(h - bs, bs), col_positions, 1, 1, m, <<>>)

PlaneAtRest ==
    plane = [h |-> 0, w |-> 0, bs |-> 1, n_embed |-> 0, n_extract |-> 0,
             embedded |-> FALSE, extracted |-> FALSE,
             embed_positions |-> <<>>, extract_positions |-> <<>>]

OutsidePlanner == UNCHANGED <<cacheVars, engineVars, pureVars, serviceVars>>

\* embed_dct, l.172-177: positions = self._block_positions(h, w, bs, n_bits)
plan_embed ==
    /\ ~plane.embedded
    /\ OutsidePlanner
    /\ plane' = [plane EXCEPT !.embedded = TRUE,
                   !.embed_positions = block_positions(plane.h, plane.w, plane.bs, plane.n_embed)]

\* extract_dct, l.220-224: positions = self._block_positions(h, w, bs, length)
plan_extract ==
    /\ ~plane.extracted
    /\ OutsidePlanner
    /\ plane' = [plane EXCEPT !.extracted = TRUE,
                   !.extract_positions = block_positions(plane.h, plane.w, plane.bs, plane.n_extract)]

\* ============================== the pure functions: nothing computed so far
QimAtRest ==
    qim = [c |-> 0, bit |-> 0, Q |-> QIM_STEP_DEFAULT, err |-> 0,
           stage |-> "start", cw |-> 0, cr |-> 0, out |-> 0]

RoundTripAtRest ==
    rt = [level |-> 0, fingerprint |-> <<>>, stage |-> "start",
          marked |-> <<>>, extracted |-> <<>>, similarity |-> <<0, 1>>]

\* strings of the text codec are sequences of code points
TextAtRest ==
    tw = [input |-> <<>>, payload |-> <<>>, stage |-> "start",
          marked |-> <<>>, extracted |-> <<>>]

HexAtRest ==
    hx = [mode |-> "hex", input |-> <<>>, stage |-> "start",
          binary |-> <<>>, out |-> <<>>]

SimAtRest ==
    sim = [extracted |-> <<>>, original |-> <<>>, stage |-> "start",
           result |-> <<0, 1>>]

VideoAtRest ==
    vid = [op |-> "none", frames |-> <<>>, fps |-> 0, max_seconds |-> 0,
           every_half_seconds |-> 0, fingerprint |-> <<>>, pc |-> "start",
           max_frames |-> 0, step |-> 0, frame_idx |-> 0, reads |-> 0,
           watermarked_frames |-> 0, out |-> <<>>,
           has_watermark |-> FALSE, extracted_fingerprint |-> <<>>]

PureAtRest ==
    QimAtRest /\ RoundTripAtRest /\ TextAtRest /\ HexAtRest /\ SimAtRest /\ VideoAtRest

\* ------------------------------------- the services: nothing requested so far
\* TaskQueue.__init__, task_queue.py l.55-60
QueueAtRest ==
    task_queue = [tasks |-> EmptyDict, queue |-> <<>>, running |-> FALSE,
                  workers |-> [w \in 1..MAX_WORKERS |->
                                  [pc |-> "none", task |-> 0, stage |-> 0]],
                  put_pending |-> <<>>,
                  last_cancel |-> [task_id |-> 0, was |-> "none", ret |-> FALSE]]

\* /embed: no request yet, no cache entry, a free-plan profile row
EmbedRequests == {"e1", "e2", "e3"}

IdleEmbed == [pc |-> "idle", cached_embed_used |-> 0, optimistic_used |-> 0]

QuotaAtRest ==
    /\ quota_cache = EmptyDict
    /\ profiles = [quota_embed_used |-> 0, quota_embed_total |-> FREE_EMBED_TOTAL,
                   initial_used |-> 0]
    /\ embed_req = [r \in EmbedRequests |-> IdleEmbed]

\* the matcher: no call so far
MatchAtRest ==
    det = [op |-> "none", all_assets |-> <<>>, top_k |-> 0, watermark_info |-> FALSE,
           fingerprint_strength |-> 0, stage |-> "start", all_matches |-> <<>>,
           has_db_match |-> FALSE, match_found |-> FALSE, matched_asset |-> 0,
           detection_source |-> "none", has_watermark |-> FALSE,
           match_candidates |-> <<>>]

\* the duplicate guard: no image handed in so far
NoResult == [called |-> FALSE, force |-> FALSE, was_marked |-> FALSE,
             success |-> FALSE, error |-> "", is_override |-> FALSE]

GuardAtRest ==
    dup = [image |-> <<>>, marked |-> FALSE, calls |-> 0, embedded |-> <<>>,
           result |-> NoResult]

\* the profile cache: empty, no call so far
NoProfileCall == [called |-> FALSE, user_ids |-> {}, path |-> "none",
                  result |-> EmptyDict, cached_for |-> {}]

ProfilesAtRest ==
    /\ profile_cache = EmptyDict
    /\ profile_call = NoProfileCall

ServiceAtRest ==
    QueueAtRest /\ QuotaAtRest /\ MatchAtRest /\ GuardAtRest /\ ProfilesAtRest

\* ==================================== one image through embed, extract, compare
\* (mutant) the matches are divided by the length of the longer fingerprint
fingerprint_similarity_over_longer(extracted, original) ==
    IF extracted = <<>> \/ original = <<>> \/ Len(original) < 8 THEN <<0, 1>>
    ELSE LET ext_bin == hex_to_binary(extracted)
             orig_bin == hex_to_binary(original)
             min_len == Min(Len(ext_bin), Len(orig_bin))
             max_len == Len(ext_bin) + Len(orig_bin) - min_len
         IN  IF min_len = 0 THEN <<0, 1>>
             ELSE <<Cardinality({i \in 1..min_len : ext_bin[i] = orig_bin[i]}), max_len>>

\* fingerprint_similarity, l.300-309, as the fraction <<matches, min_len>>;
\* 0.0 is <<0, 1>>
fingerprint_similarity(extracted, original) ==
    IF extracted = <<>> \/ original = <<>> \/ Len(original) < 8 THEN <<0, 1>>
    ELSE LET ext_bin == hex_to_binary(extracted)
             orig_bin == hex_to_binary(original)
             min_len == Min(Len(ext_bin), Len(orig_bin))
         IN  IF min_len = 0 THEN <<0, 1>>
             ELSE <<Cardinality({i \in 1..min_len : ext_bin[i] = orig_bin[i]}), min_len>>

\* _build_dct_matrix: rows 2 and 3 of the 8x8 DCT matrix, in units of 1/256
DCT8_ROW2 == <<118, 49, -49, -118, -118, -49, 49, 118>>
DCT8_ROW3 == <<106, -25, -126, -71, 71, 126, 25, -106>>

\* the (2,3) basis image, _DCT8[2, i] * _DCT8[3, j], in units of 1/65536
Basis23(i, j) == DCT8_ROW2[i] * DCT8_ROW3[j]

Sum8(f) == f[1] + f[2] + f[3] + f[4] + f[5] + f[6] + f[7] + f[8]

\* _batch_dct, entry [2, 3] of _DCT8 @ block @ _DCT8T, in units of 1/65536
BlockCoeff(px) ==
    Sum8([i \in 1..8 |-> Sum8([j \in 1..8 |-> px[i][j] * Basis23(i, j)])])

\* np.clip(., 0, 255).astype(np.uint8) on a value given in units of 1/65536
ClipToUint8(v) ==
    IF v < 0 THEN 0 ELSE IF v \div 65536 > 255 THEN 255 ELSE v \div 65536

\* embed_dct, l.186-199, on one block whose (2,3) coefficient is the integer
\* c: the coefficient becomes QimEmbed(c, bit, Q), the inverse transform adds
\* the difference times the basis image to the pixels, and the pixels are
\* clipped and cut to uint8
EmbedBlock(px, c, bit, Q) ==
    LET delta == QimEmbed(c, bit, Q) - c
    IN  [i \in 1..8 |-> [j \in 1..8 |->
            ClipToUint8(px[i][j] * 65536 + delta * Basis23(i, j))]]

\* a block whose 64 pixels hold one grey level; its (2,3) coefficient is 0
FlatBlock(level) == [i \in 1..8 |-> [j \in 1..8 |-> level]]

SampleLevels == {0, 1, 2, 3, 4, 64, 128, 192, 251, 252, 253, 254, 255}

RoundTripFingerprints ==
    SampleFingerprints \cup
    {[i \in 1..64 |-> "0"], [i \in 1..64 |-> HEXCHARS[((7 * i) % 16) + 1]]}

OutsideRoundTrip == UNCHANGED <<cacheVars, engineVars, blockVars, serviceVars, qim, tw, hx, sim, vid>>

\* embed_dct on a grey image whose plane is flat at rt.level and has
\* PlaneBlocks blocks available
roundtrip_embed ==
    /\ rt.stage = "start"
    /\ OutsideRoundTrip
    /\ LET bits == hex_to_bits_array(rt.fingerprint, FINGERPRINT_BITS)
           n_embed == Min(FINGERPRINT_BITS, PlaneBlocks)
       IN  rt' = [rt EXCEPT !.stage = "embedded",
                    !.marked = [k \in 1..PlaneBlocks |->
                        IF k <= n_embed
                        THEN EmbedBlock(FlatBlock(rt.level), 0, bits[k], QIM_STEP_DEFAULT)
                        ELSE FlatBlock(rt.level)]]

\* extract_dct(watermarked, length=256)
roundtrip_extract ==
    /\ rt.stage = "embedded"
    /\ OutsideRoundTrip
    /\ rt' = [rt EXCEPT !.stage = "extracted",
                !.extracted = binary_to_hex(
                    [k \in 1..Min(FINGERPRINT_BITS, PlaneBlocks) |->
                        QimBit(BlockCoeff(rt.marked[k]), QIM_STEP_DEFAULT * 65536)])]

\* fingerprint_similarity(extracted, fingerprint)
roundtrip_compare ==
    /\ rt.stage = "extracted"
    /\ OutsideRoundTrip
    /\ rt' = [rt EXCEPT !.stage = "compared",
                !.similarity = fingerprint_similarity(rt.extracted, rt.fingerprint)]

InitRoundTrip ==
    /\ \E l \in SampleLevels, f \in RoundTripFingerprints :
          rt = [level |-> l, fingerprint |-> f, stage |-> "start",
                marked |-> <<>>, extracted |-> <<>>, similarity |-> <<0, 1>>]
    /\ EngineAtRest
    /\ ServiceAtRest
    /\ CacheAtRest
    /\ db = <<>>
    /\ PlaneAtRest
    /\ QimAtRest
    /\ TextAtRest
    /\ HexAtRest
    /\ SimAtRest
    /\ VideoAtRest

NextRoundTrip == roundtrip_embed \/ roundtrip_extract \/ roundtrip_compare

SpecRoundTrip == InitRoundTrip /\ [][NextRoundTrip]_vars

\* ================================================ one coefficient through QIM
\* The steps the engine works with, 30 and the legacy 8, each also with the
\* coefficient measured in half units (so that errors of x.5 are covered).
SampleSteps == {LEGACY_QIM_STEPS[1], QIM_STEP_DEFAULT,
                2 * LEGACY_QIM_STEPS[1], 2 * QIM_STEP_DEFAULT}

OutsideQim == UNCHANGED <<cacheVars, engineVars, blockVars, serviceVars, rt, tw, hx, sim, vid>>

\* embed_dct, l.189-192, on one coefficient
qim_embed ==
    /\ qim.stage = "start"
    /\ OutsideQim
    /\ qim' = [qim EXCEPT !.stage = "embedded",
                          !.cw = QimEmbed(qim.c, qim.bit, qim.Q)]

\* what happens to the coefficient between embedder and extractor (IDCT,
\* clipping, rounding to uint8, re-encoding): an error is added
qim_disturb ==
    /\ qim.stage = "embedded"
    /\ OutsideQim
    /\ qim' = [qim EXCEPT !.stage = "received", !.cr = qim.cw + qim.err]

\* extract_dct, l.233-236, on one coefficient
qim_extract ==
    /\ qim.stage = "received"
    /\ OutsideQim
    /\ qim' = [qim EXCEPT !.stage = "extracted", !.out = QimBit(qim.cr, qim.Q)]

InitQim ==
    /\ \E c \in (-MaxCoeff)..MaxCoeff, b \in {0, 1}, Q \in SampleSteps,
          e \in (-MaxErr)..MaxErr :
          qim = [c |-> c, bit |-> b, Q |-> Q, err |-> e,
                 stage |-> "start", cw |-> 0, cr |-> 0, out |-> 0]
    /\ EngineAtRest
    /\ ServiceAtRest
    /\ CacheAtRest
    /\ db = <<>>
    /\ PlaneAtRest
    /\ RoundTripAtRest
    /\ TextAtRest
    /\ HexAtRest
    /\ SimAtRest
    /\ VideoAtRest

NextQim == qim_embed \/ qim_disturb \/ qim_extract

SpecQim == InitQim /\ [][NextQim]_vars

\* ================================================================ text codec
SeqsUpTo(S, n) == UNION {[1..k -> S] : k \in 0..n}

\* bin(n) without the prefix: the binary digits of n, most significant first
RECURSIVE ToBinary(_)
ToBinary(n) == IF n < 2 THEN <<n>> ELSE Append(ToBinary(n \div 2), n % 2)

\* format(ord(char), '08b'): padded with zeros to a width of at least 8
Format08b(n) ==
    LET b == ToBinary(n)
    IN  IF Len(b) >= 8 THEN b ELSE [i \in 1..(8 - Len(b)) |-> 0] \o b

\* int(b, 2)
RECURSIVE FromBinary(_)
FromBinary(b) ==
    IF b = <<>> THEN 0 ELSE 2 * FromBinary(SubSeq(b, 1, Len(b) - 1)) + b[Len(b)]

\* embed, l.17: ''.join(format(ord(char), '08b') for char in watermark_str)
RECURSIVE BinaryStr(_)
BinaryStr(watermark_str) ==
    IF watermark_str = <<>> THEN <<>>
    ELSE Format08b(Head(watermark_str)) \o BinaryStr(Tail(watermark_str))

\* (mutant) the run is appended to the text
InsertAtEnd(text) == Len(text)

\* embed, l.29: insert_pos = min(1, len(text))
InsertPos(text) == Min(1, Len(text))

\* TextWatermarkService.embed
text_embed(text, watermark_str) ==
    IF text = <<>> THEN text
    ELSE LET binary_str == BinaryStr(watermark_str)
             hidden_chars == [i \in 1..Len(binary_str) |->
                                 IF binary_str[i] = 0 THEN ZW_SPA ELSE ZW_NON]
             encoded_watermark == <<ZW_JOIN>> \o hidden_chars \o <<ZW_JOIN>>
             insert_pos == InsertPos(text)
         IN  SubSeq(text, 1, insert_pos) \o encoded_watermark
                 \o SubSeq(text, insert_pos + 1, Len(text))

\* str.find(ch, from): the first index >= from (1-based) holding ch, 0 if none
Find(text, ch, from) ==
    IF \E i \in from..Len(text) : text[i] = ch
    THEN CHOOSE i \in from..Len(text) :
            text[i] = ch /\ \A k \in from..(i - 1) : text[k] # ch
    ELSE 0

\* extract, l.61-68: the bits in groups of 8, the last group as long as it is,
\* each group read as a number and turned into a character
RECURSIVE DecodeChunks(_)
DecodeChunks(binary_str) ==
    IF binary_str = <<>> THEN <<>>
    ELSE <<FromBinary(SubSeq(binary_str, 1, Min(8, Len(binary_str))))>>
            \o DecodeChunks(SubSeq(binary_str, 9, Len(binary_str)))

\* "No watermark found" and "Corrupted watermark"
NO_WATERMARK == <<78, 111, 32, 119, 97, 116, 101, 114, 109, 97, 114, 107,
                  32, 102, 111, 117, 110, 100>>
CORRUPTED_WATERMARK == <<67, 111, 114, 114, 117, 112, 116, 101, 100, 32,
                         119, 97, 116, 101, 114, 109, 97, 114, 107>>

\* TextWatermarkService.extract
text_extract(text) ==
    IF text = <<>> THEN <<>>
    ELSE LET start == Find(text, ZW_JOIN, 1)
         IN  IF start = 0 THEN NO_WATERMARK
             ELSE LET end == Find(text, ZW_JOIN, start + 1)
                  IN  IF end = 0 THEN CORRUPTED_WATERMARK
                      ELSE LET hidden_chars == SubSeq(text, start + 1, end - 1)
                               kept == SelectSeq(hidden_chars,
                                          LAMBDA ch : ch \in {ZW_SPA, ZW_NON})
                               binary_str == [i \in 1..Len(kept) |->
                                                 IF kept[i] = ZW_SPA THEN 0 ELSE 1]
                           IN  DecodeChunks(binary_str)

\* re.sub(r'[\u200b\u200c\u200d]', '', text)
StripMarkers(text) == SelectSeq(text, LAMBDA ch : ch \notin {ZW_SPA, ZW_NON, ZW_JOIN})

\* visible characters "a", "b"; payload characters "1", U+00FF, U+0100
VisibleChars == {97, 98}
PayloadChars == {49, 255, 256}

OutsideText == UNCHANGED <<cacheVars, engineVars, blockVars, serviceVars, qim, rt, hx, sim, vid>>

\* embed(input, payload)
tw_embed ==
    /\ tw.stage = "start"
    /\ OutsideText
    /\ tw' = [tw EXCEPT !.stage = "embedded",
                        !.marked = text_embed(tw.input, tw.payload)]

\* extract(marked), the text embed returned
tw_extract_marked ==
    /\ tw.stage = "embedded"
    /\ OutsideText
    /\ tw' = [tw EXCEPT !.stage = "roundtrip", !.extracted = text_extract(tw.marked)]

\* extract(input), a text as it was received (detect_text_watermark)
tw_extract_input ==
    /\ tw.stage = "start"
    /\ OutsideText
    /\ tw' = [tw EXCEPT !.stage = "extracted", !.extracted = text_extract(tw.input)]

InitText ==
    /\ \E t \in SeqsUpTo(VisibleChars \cup {ZW_SPA, ZW_NON, ZW_JOIN}, MaxTextLen),
          w \in SeqsUpTo(PayloadChars, MaxPayloadLen) :
          tw = [input |-> t, payload |-> w, stage |-> "start",
                marked |-> <<>>, extracted |-> <<>>]
    /\ EngineAtRest
    /\ ServiceAtRest
    /\ CacheAtRest
    /\ db = <<>>
    /\ PlaneAtRest
    /\ QimAtRest
    /\ RoundTripAtRest
    /\ HexAtRest
    /\ SimAtRest
    /\ VideoAtRest

NextText == tw_embed \/ tw_extract_marked \/ tw_extract_input

SpecText == InitText /\ [][NextText]_vars

\* ====================================================== hex/binary converters
OutsideHex == UNCHANGED <<cacheVars, engineVars, blockVars, serviceVars, qim, rt, tw, sim, vid>>

\* _hex_to_binary(input)
hx_to_binary ==
    /\ hx.mode = "hex" /\ hx.stage = "start"
    /\ OutsideHex
    /\ hx' = [hx EXCEPT !.stage = "binary", !.binary = hex_to_binary(hx.input)]

\* _binary_to_hex of what _hex_to_binary returned
hx_back_to_hex ==
    /\ hx.mode = "hex" /\ hx.stage = "binary"
    /\ OutsideHex
    /\ hx' = [hx EXCEPT !.stage = "back", !.out = binary_to_hex(hx.binary)]

\* _binary_to_hex(input), as extract_dct calls it on the bits it read (l.239)
hx_pack_bits ==
    /\ hx.mode = "bits" /\ hx.stage = "start"
    /\ OutsideHex
    /\ hx' = [hx EXCEPT !.stage = "packed", !.out = binary_to_hex(hx.input)]

InitHex ==
    /\ \/ \E h \in SeqsUpTo(Range(HEXCHARS), MaxHexLen) :
             hx = [mode |-> "hex", input |-> h, stage |-> "start",
                   binary |-> <<>>, out |-> <<>>]
       \/ \E b \in SeqsUpTo({0, 1}, MaxBitLen) :
             hx = [mode |-> "bits", input |-> b, stage |-> "start",
                   binary |-> <<>>, out |-> <<>>]
    /\ EngineAtRest
    /\ ServiceAtRest
    /\ CacheAtRest
    /\ db = <<>>
    /\ PlaneAtRest
    /\ QimAtRest
    /\ RoundTripAtRest
    /\ TextAtRest
    /\ SimAtRest
    /\ VideoAtRest

NextHex == hx_to_binary \/ hx_back_to_hex \/ hx_pack_bits

SpecHex == InitHex /\ [][NextHex]_vars

\* =================================================== fingerprint_similarity
\* fingerprints of n characters: c1 in the first k places, c2 in the others
TwoPart(c1, k, c2, n) == [i \in 1..n |-> IF i <= k THEN c1 ELSE c2]

SimChars == {"0", "a", "f", "A"}

SimFingerprints ==
    {TwoPart(c1, k, c2, n) : c1 \in SimChars, c2 \in SimChars,
                             k \in {0, 3}, n \in 0..MaxSimLen}

OutsideSim == UNCHANGED <<cacheVars, engineVars, blockVars, serviceVars, qim, rt, tw, hx, vid>>

\* fingerprint_similarity(extracted, original)
sim_compare ==
    /\ sim.stage = "start"
    /\ OutsideSim
    /\ sim' = [sim EXCEPT !.stage = "compared",
                  !.result = fingerprint_similarity(sim.extracted, sim.original)]

InitSim ==
    /\ \E e \in SimFingerprints, o \in SimFingerprints :
          sim = [extracted |-> e, original |-> o, stage |-> "start",
                 result |-> <<0, 1>>]
    /\ EngineAtRest
    /\ ServiceAtRest
    /\ CacheAtRest
    /\ db = <<>>
    /\ PlaneAtRest
    /\ QimAtRest
    /\ RoundTripAtRest
    /\ TextAtRest
    /\ HexAtRest
    /\ VideoAtRest

NextSim == sim_compare

SpecSim == InitSim /\ [][NextSim]_vars

\* ============================================================ video service
Max(a, b) == IF a >= b THEN a ELSE b

\* fps = int(cap.get(CAP_PROP_FPS)); if fps <= 0: fps = 25
EffectiveFps(fps) == IF fps <= 0 THEN FALLBACK_FPS ELSE fps

\* int(max(1, fps * max(1, int(max_seconds))))
MaxFramesOf(fps, max_seconds) == Max(1, fps * Max(1, max_seconds))

\* max(1, int(round(fps * every_seconds))), the interval given in half seconds
StepOf(fps, every_half_seconds) == Max(1, RoundHalfEven(fps * every_half_seconds, 2))

\* (mutant) the frames just before a multiple of the step are the ones embedded
IsEmbedFrameBefore(frame_idx, embed_step) == (frame_idx + 1) % embed_step = 0

\* embed_video, l.54: `if frame_idx % embed_step == 0`
IsEmbedFrame(frame_idx, embed_step) == frame_idx % embed_step = 0

\* str.strip('0')
RECURSIVE LStrip0(_)
LStrip0(str) == IF str # <<>> /\ Head(str) = "0" THEN LStrip0(Tail(str)) ELSE str

RECURSIVE RStrip0(_)
RStrip0(str) ==
    IF str # <<>> /\ str[Len(str)] = "0" THEN RStrip0(SubSeq(str, 1, Len(str) - 1)) ELSE str

Strip0(str) == RStrip0(LStrip0(str))

\* detect_video, l.107
IsHit(extracted) == Len(Strip0(extracted)) >= MIN_STRIPPED_LENGTH

\* frames: no signal; full signal under step 30; 14 of 16 characters under
\* step 30 (strength 14); full signal under the legacy step only
VideoFrames ==
    {Plane(0, 0, 0), Plane(15, 0, 15), Plane(15, NBlocks - 8, 4), Plane(4, 0, 4)}

\* blank videos about as long as the frame limit of detect_video at one frame
\* per second, one of them with a signal in its last frame
LongVideos ==
    {[i \in 1..n |-> Plane(0, 0, 0)] :
        n \in DETECT_MAX_SECONDS..(DETECT_MAX_SECONDS + 1)}
    \cup {[i \in 1..(DETECT_MAX_SECONDS + 1) |->
             IF i <= DETECT_MAX_SECONDS THEN Plane(0, 0, 0) ELSE Plane(15, 0, 15)]}

SampleVideos == SeqsUpTo(VideoFrames, MaxFrames) \cup LongVideos

\* the videos handed to embed_video: frames with and without a signal
EmbedVideos == SeqsUpTo({Plane(0, 0, 0), Plane(15, 0, 15)}, MaxFrames) \cup LongVideos

SampleFps == (0..MaxFps) \cup {2 * MaxFps}

OutsideVideo == UNCHANGED <<cacheVars, engineVars, blockVars, serviceVars, qim, rt, tw, hx, sim>>

\* embed_video, l.26-46: open the video, compute max_frames and embed_step
embed_video_open ==
    /\ vid.op = "embed" /\ vid.pc = "start"
    /\ OutsideVideo
    /\ LET fps == EffectiveFps(vid.fps)
       IN  vid' = [vid EXCEPT !.pc = "loop",
                      !.max_frames = MaxFramesOf(fps, vid.max_seconds),
                      !.step = StepOf(fps, vid.every_half_seconds)]

\* embed_video, l.48-64: one turn of the loop
embed_video_frame ==
    /\ vid.op = "embed" /\ vid.pc = "loop"
    /\ OutsideVideo
    /\ IF vid.reads >= Len(vid.frames)
       THEN vid' = [vid EXCEPT !.pc = "release"]              \* `if not ret: break`
       ELSE LET frame == vid.frames[vid.reads + 1]
                embed == IsEmbedFrame(vid.frame_idx, vid.step)
                written == IF embed
                           THEN [marked |-> TRUE,
                                 frame |-> embed_dct(frame, vid.fingerprint, QIM_STEP_DEFAULT)]
                           ELSE [marked |-> FALSE, frame |-> frame]
            IN  vid' = [vid EXCEPT
                          !.reads = @ + 1,
                          !.out = Append(@, written),
                          !.watermarked_frames = IF embed THEN @ + 1 ELSE @,
                          !.frame_idx = @ + 1,
                          !.pc = IF vid.frame_idx + 1 >= vid.max_frames
                                 THEN "release" ELSE "loop"]

\* embed_video, l.66-77, and detect_video, l.115-126: release and return
video_return ==
    /\ vid.pc = "release"
    /\ OutsideVideo
    /\ vid' = [vid EXCEPT !.pc = "returned",
                  !.has_watermark = (vid.op = "detect"
                                       /\ vid.extracted_fingerprint # <<"None">>),
                  !.extracted_fingerprint =
                      IF vid.extracted_fingerprint = <<"None">> THEN <<>> ELSE @]

\* detect_video, l.84-95
detect_video_open ==
    /\ vid.op = "detect" /\ vid.pc = "start"
    /\ OutsideVideo
    /\ LET fps == EffectiveFps(vid.fps)
       IN  vid' = [vid EXCEPT !.pc = "loop",
                      !.extracted_fingerprint = <<"None">>,
                      !.max_frames = MaxFramesOf(fps, DETECT_MAX_SECONDS),
                      !.step = StepOf(fps, DETECT_EVERY_HALF_SECONDS)]

\* detect_video, l.97-113: one turn of the loop
detect_video_frame ==
    /\ vid.op = "detect" /\ vid.pc = "loop"
    /\ OutsideVideo
    /\ IF vid.reads >= Len(vid.frames)
       THEN vid' = [vid EXCEPT !.pc = "release"]
       ELSE LET frame == vid.frames[vid.reads + 1]
                extracted == extract_dct_adaptive(frame, QIM_STEP_DEFAULT)[1]
            IN  IF vid.frame_idx % vid.step = 0 /\ IsHit(extracted)
                THEN vid' = [vid EXCEPT !.reads = @ + 1,
                                !.extracted_fingerprint = extracted,
                                !.pc = "release"]
                ELSE vid' = [vid EXCEPT !.reads = @ + 1,
                                !.frame_idx = @ + 1,
                                !.pc = IF vid.frame_idx + 1 >= vid.max_frames
                                       THEN "release" ELSE "loop"]

InitVideo ==
    /\ \/ \E v \in EmbedVideos, fps \in SampleFps, ms \in 0..2, ehs \in {1, 2, 4} :
          LET f == [i \in 1..64 |-> IF i % 2 = 1 THEN "a" ELSE "5"] IN
             vid = [op |-> "embed", frames |-> v, fps |-> fps, max_seconds |-> ms,
                    every_half_seconds |-> ehs, fingerprint |-> f, pc |-> "start",
                    max_frames |-> 0, step |-> 0, frame_idx |-> 0, reads |-> 0,
                    watermarked_frames |-> 0, out |-> <<>>,
                    has_watermark |-> FALSE, extracted_fingerprint |-> <<>>]
       \/ \E v \in SampleVideos, fps \in SampleFps :
             vid = [op |-> "detect", frames |-> v, fps |-> fps, max_seconds |-> 0,
                    every_half_seconds |-> 0, fingerprint |-> <<>>, pc |-> "start",
                    max_frames |-> 0, step |-> 0, frame_idx |-> 0, reads |-> 0,
                    watermarked_frames |-> 0, out |-> <<>>,
                    has_watermark |-> FALSE, extracted_fingerprint |-> <<>>]
    /\ EngineAtRest
    /\ ServiceAtRest
    /\ CacheAtRest
    /\ db = <<>>
    /\ PlaneAtRest
    /\ QimAtRest
    /\ RoundTripAtRest
    /\ TextAtRest
    /\ HexAtRest
    /\ SimAtRest

NextVideo ==
    \/ embed_video_open
    \/ embed_video_frame
    \/ detect_video_open
    \/ detect_video_frame
    \/ video_return

SpecVideo == InitVideo /\ [][NextVideo]_vars

\* ============================================ TaskQueue (task_queue.py)
OutsideQueue == UNCHANGED <<cacheVars, engineVars, blockVars, pureVars, quotaVars, det, dup, profileVars>>

TaskIds == 1..MaxTasks
TaskTypes == {"image", "video", "batch", "other"}
TERMINAL == {"completed", "failed", "cancelled"}

\* the five stages of _process_video_detection, one `await asyncio.sleep` each
VIDEO_STAGES == <<15, 30, 50, 75, 100>>

\* _process_task l.109-110 and l.113-116: the status the end of the handler
\* assigns, whatever the status is at that moment
Finish(tasks, id, st) == [tasks EXCEPT ![id].status = st]

\* submit_task, l.257-283: the task is stored PENDING and the put of its id
\* is scheduled with asyncio.create_task
submit_task(tt) ==
    /\ OutsideQueue
    /\ LET id == Cardinality(DOMAIN task_queue.tasks) + 1
       IN  /\ id \in TaskIds
           /\ task_queue' = [task_queue EXCEPT
                  !.tasks = DictSet(@, id, [status |-> "pending", task_type |-> tt,
                                             cancel_ok |-> FALSE, picked |-> 0]),
                  !.put_pending = Append(@, id)]

\* the scheduled `self.queue.put(task_id)` runs: asyncio runs the scheduled
\* coroutines in the order of their creation
queue_put ==
    /\ OutsideQueue
    /\ task_queue.put_pending # <<>>
    /\ task_queue' = [task_queue EXCEPT
           !.queue = Append(@, Head(task_queue.put_pending)),
           !.put_pending = Tail(@)]

\* start, l.62-73
start ==
    /\ OutsideQueue
    /\ ~task_queue.running
    /\ task_queue' = [task_queue EXCEPT
           !.running = TRUE,
           !.workers = [w \in 1..MAX_WORKERS |-> [pc |-> "get", task |-> 0, stage |-> 0]]]

\* stop, l.75-84: every worker is cancelled where it is suspended.  The
\* CancelledError raised at the worker's await is not an Exception, so
\* neither `except Exception` of _process_task (l.112) nor that of
\* _worker_loop (l.97) catches it: the task in hand keeps its status.
stop ==
    /\ OutsideQueue
    /\ task_queue.running
    /\ task_queue' = [task_queue EXCEPT
           !.running = FALSE,
           !.workers = [w \in 1..MAX_WORKERS |-> [pc |-> "none", task |-> 0, stage |-> 0]]]

\* _worker_loop l.88-95 with _process_task l.101-119 up to the handler's first
\* await: the worker takes an id off the queue; a PENDING task becomes
\* PROCESSING; a batch task has no await and completes, an unknown type and
\* an image task whose file is missing raise and fail, an image or video task
\* is suspended at its first sleep.
worker_take(w) ==
    /\ OutsideQueue
    /\ task_queue.workers[w].pc = "get"
    /\ task_queue.queue # <<>>
    /\ LET id == Head(task_queue.queue)
           tasks == task_queue.tasks
       IN  IF DictHas(tasks, id) /\ tasks[id].status = "pending"
           THEN LET taken == [tasks EXCEPT ![id].status = "processing",
                                           ![id].picked = @ + 1]
                    tt == tasks[id].task_type
                IN  \/ /\ tt = "batch"
                       /\ task_queue' = [task_queue EXCEPT
                              !.queue = Tail(@),
                              !.tasks = Finish(taken, id, "completed")]
                    \/ /\ tt \notin {"image", "video", "batch"} \/ tt = "image"
                       /\ task_queue' = [task_queue EXCEPT
                              !.queue = Tail(@),
                              !.tasks = Finish(taken, id, "failed")]
                    \/ /\ tt \in {"image", "video"}
                       /\ task_queue' = [task_queue EXCEPT
                              !.queue = Tail(@),
                              !.tasks = taken,
                              !.workers[w] = [pc |-> "await", task |-> id,
                                              stage |-> IF tt = "video"
                                                        THEN Len(VIDEO_STAGES) ELSE 1]]
           ELSE task_queue' = [task_queue EXCEPT !.queue = Tail(@)]

\* the handler resumes after a sleep: a video task goes to its next stage;
\* after the last await the handler returns (or detect_watermark raises, for
\* an image) and _process_task assigns COMPLETED (l.109) or FAILED (l.114)
worker_resume(w) ==
    /\ OutsideQueue
    /\ task_queue.workers[w].pc = "await"
    /\ LET id == task_queue.workers[w].task
           tt == task_queue.tasks[id].task_type
       IN  IF task_queue.workers[w].stage > 1
           THEN task_queue' = [task_queue EXCEPT !.workers[w].stage = @ - 1]
           ELSE \E st \in (IF tt = "image" THEN {"completed", "failed"}
                                           ELSE {"completed"}) :
                   task_queue' = [task_queue EXCEPT
                       !.tasks = Finish(@, id, st),
                       !.workers[w] = [pc |-> "get", task |-> 0, stage |-> 0]]

\* cancel_task, l.300-307
cancel_task(id) ==
    /\ OutsideQueue
    /\ LET tasks == task_queue.tasks
       IN  IF DictHas(tasks, id) /\ tasks[id].status \in {"pending", "processing"}
           THEN task_queue' = [task_queue EXCEPT
                    !.tasks = [tasks EXCEPT ![id].status = "cancelled",
                                            ![id].cancel_ok = TRUE],
                    !.last_cancel = [task_id |-> id, was |-> tasks[id].status,
                                     ret |-> TRUE]]
           ELSE task_queue' = [task_queue EXCEPT
                    !.last_cancel = [task_id |-> id,
                                     was |-> IF DictHas(tasks, id)
                                             THEN tasks[id].status ELSE "none",
                                     ret |-> FALSE]]

InitQueue ==
    /\ QueueAtRest
    /\ QuotaAtRest
    /\ MatchAtRest
    /\ GuardAtRest
    /\ ProfilesAtRest
    /\ CacheAtRest
    /\ db = <<>>
    /\ EngineAtRest
    /\ PlaneAtRest
    /\ PureAtRest

NextQueue ==
    \/ \E tt \in TaskTypes : submit_task(tt)
    \/ queue_put
    \/ start
    \/ stop
    \/ \E w \in 1..MAX_WORKERS : worker_take(w)
    \/ \E w \in 1..MAX_WORKERS : worker_resume(w)
    \/ \E id \in TaskIds : cancel_task(id)

SpecQueue == InitQueue /\ [][NextQueue]_vars

\* the event loop runs every coroutine that is ready: the scheduled puts and
\* the workers; the application starts the queue at startup (main.py l.60-62)
SpecQueueFair ==
    /\ SpecQueue
    /\ WF_vars(queue_put)
    /\ WF_vars(start)
    /\ \A w \in 1..MAX_WORKERS : WF_vars(worker_take(w)) /\ WF_vars(worker_resume(w))

\* ================================== embed quota (api/endpoints/watermark.py)
OutsideQuota == UNCHANGED <<cacheVars, engineVars, blockVars, pureVars, task_queue, det, dup, profileVars>>

\* `if embed_used >= embed_total: raise HTTPException(402)`, l.245 and l.296
QuotaExhausted(embed_used, embed_total) == embed_used >= embed_total

\* embed_watermark l.234-297, the quota check of a signed-in user: from the
\* cache entry when there is one (entries outlive the run: the TTL is 600 s),
\* otherwise from the profiles row, which is then cached (l.290)
embed_check_quota(r) ==
    /\ OutsideQuota
    /\ embed_req[r].pc = "idle"
    /\ LET hit == DictHas(quota_cache, "embed_used")
           embed_used == IF hit THEN quota_cache["embed_used"]
                                ELSE profiles.quota_embed_used
           embed_total == IF hit THEN quota_cache["embed_total"]
                                 ELSE profiles.quota_embed_total
       IN  /\ quota_cache' = IF hit THEN quota_cache
                             ELSE DictSet(DictSet(EmptyDict, "embed_used", embed_used),
                                          "embed_total", embed_total)
           /\ embed_req' = [embed_req EXCEPT ![r] =
                  [pc |-> IF QuotaExhausted(embed_used, embed_total)
                          THEN "rejected" ELSE "checked",
                   cached_embed_used |-> embed_used, optimistic_used |-> 0]]
    /\ UNCHANGED profiles

\* l.299-346: the image is read and embedded; on success the request takes
\* optimistic_used = _cached_embed_used + 1, increments the cache entry when
\* there is one (_increment_quota_cache, l.84-87) and schedules
\* _background_persist; on failure nothing is deducted
embed_service(r) ==
    /\ OutsideQuota
    /\ embed_req[r].pc = "checked"
    /\ \/ /\ embed_req' = [embed_req EXCEPT
                 ![r].pc = "persist",
                 ![r].optimistic_used = embed_req[r].cached_embed_used + 1]
          /\ quota_cache' = IF DictHas(quota_cache, "embed_used")
                            THEN DictSet(quota_cache, "embed_used",
                                         quota_cache["embed_used"] + 1)
                            ELSE quota_cache
       \/ /\ embed_req' = [embed_req EXCEPT ![r].pc = "failed"]
          /\ UNCHANGED quota_cache
    /\ UNCHANGED profiles

\* _background_persist l.379-385: the row's quota_embed_used is overwritten
\* with the request's optimistic_used and the cache entry is deleted
background_persist_quota(r) ==
    /\ OutsideQuota
    /\ embed_req[r].pc = "persist"
    /\ profiles' = [profiles EXCEPT !.quota_embed_used = embed_req[r].optimistic_used]
    /\ quota_cache' = EmptyDict
    /\ embed_req' = [embed_req EXCEPT ![r].pc = "done"]

InitQuota ==
    /\ quota_cache = EmptyDict
    /\ \E left \in 0..MaxHeadroom :
          profiles = [quota_embed_used |-> FREE_EMBED_TOTAL - left,
                      quota_embed_total |-> FREE_EMBED_TOTAL,
                      initial_used |-> FREE_EMBED_TOTAL - left]
    /\ embed_req = [r \in EmbedRequests |-> IdleEmbed]
    /\ QueueAtRest
    /\ MatchAtRest
    /\ GuardAtRest
    /\ ProfilesAtRest
    /\ CacheAtRest
    /\ db = <<>>
    /\ EngineAtRest
    /\ PlaneAtRest
    /\ PureAtRest

NextQuota ==
    \/ \E r \in EmbedRequests : embed_check_quota(r)
    \/ \E r \in EmbedRequests : embed_service(r)
    \/ \E r \in EmbedRequests : background_persist_quota(r)

SpecQuota == InitQuota /\ [][NextQuota]_vars

\* ================== the matcher (enhanced_watermark.py, _find_all_matches)
\* Scores are kept in 64ths of a percent: a 256-bit fingerprint with m equal
\* bits has similarity m/256, that is 25*m 64ths of a percent, and the pHash
\* bonus (1 - d/20) * 30 is 1920 - 96*d 64ths.
OutsideMatch == UNCHANGED <<cacheVars, engineVars, blockVars, pureVars, task_queue, quotaVars, dup, profileVars>>

\* sim * 100 for a row whose fingerprint agrees with the extracted one in m
\* of FINGERPRINT_BITS bits (fingerprint_similarity, l.714)
Sim64(m) == (m * 100 * 64) \div FINGERPRINT_BITS

\* l.723-733: combined_score of one row
CombinedScore64(row, watermark_info) ==
    Sim64(row.m)
    + (IF row.phash_dist <= PHASH_THRESHOLD
       THEN PHASH_BONUS * 64 - (row.phash_dist * PHASH_BONUS * 64) \div PHASH_THRESHOLD
       ELSE 0)
    + (IF watermark_info /\ row.near THEN TEMPORAL_BONUS * 64 ELSE 0)

\* round(x, 2) of a score given in 64ths, in hundredths of a percent
Round2(score64) == RoundHalfEven(score64 * 100, 64)

\* l.735-751: the candidate built for a row that passes the floor of
\* _find_all_matches
Candidate(i, row, watermark_info) ==
    [id |-> i,
     similarity |-> Round2(CombinedScore64(row, watermark_info)),
     fingerprint_sim |-> Round2(Sim64(row.m)),
     combined_score |-> CombinedScore64(row, watermark_info)]

\* l.713-751: the loop over the corpus, in corpus order
RECURSIVE Collect(_, _, _)
Collect(all_assets, i, watermark_info) ==
    IF i > Len(all_assets) THEN <<>>
    ELSE LET c == Candidate(i, all_assets[i], watermark_info)
             rest == Collect(all_assets, i + 1, watermark_info)
         IN  IF c.combined_score >= MIN_SIMILARITY_PERCENT * 64
             THEN <<c>> \o rest ELSE rest

\* insertion of one candidate into a list sorted by descending key, after
\* the candidates of equal key (list.sort is stable, also with reverse=True)
RECURSIVE InsertDesc(_, _)
InsertDesc(c, sorted) ==
    IF sorted = <<>> THEN <<c>>
    ELSE IF Head(sorted).similarity >= c.similarity
         THEN <<Head(sorted)>> \o InsertDesc(c, Tail(sorted))
         ELSE <<c>> \o sorted

\* l.753: matches.sort(key=lambda x: x['similarity'], reverse=True)
RECURSIVE SortDesc(_)
SortDesc(matches) ==
    IF matches = <<>> THEN <<>>
    ELSE LET n == Len(matches)
         IN  InsertDesc(matches[n], SortDesc(SubSeq(matches, 1, n - 1)))

\* (mutant) the candidates are cut to top_k before they are sorted
find_all_matches_cut_first(all_assets, watermark_info, top_k) ==
    IF all_assets = <<>> THEN <<>>
    ELSE LET found == Collect(all_assets, 1, watermark_info)
         IN  SortDesc(SubSeq(found, 1, Min(top_k, Len(found))))

\* l.695-754: nothing for an empty corpus, otherwise the sorted candidates
\* cut to top_k
find_all_matches(all_assets, watermark_info, top_k) ==
    IF all_assets = <<>> THEN <<>>
    ELSE LET sorted == SortDesc(Collect(all_assets, 1, watermark_info))
         IN  SubSeq(sorted, 1, Min(top_k, Len(sorted)))

\* detect_watermark l.514: best_match is not None and similarity >= 60,
\* where 'similarity' is the rounded combined score
HasDbMatch(all_matches) ==
    all_matches # <<>> /\ all_matches[1].similarity >= DB_MATCH_FLOOR * 100

\* rows a corpus is drawn from: equal bits of 256, pHash distance to the
\* query (NO_PHASH when a hash is missing), timestamp within 300 s
SampleRows ==
    {[m |-> 256, phash_dist |-> 0, near |-> TRUE],
     [m |-> 154, phash_dist |-> NO_PHASH, near |-> FALSE],
     [m |-> 153, phash_dist |-> NO_PHASH, near |-> TRUE],
     [m |-> 128, phash_dist |-> 0, near |-> FALSE],
     [m |-> 128, phash_dist |-> 20, near |-> FALSE],
     [m |-> 90, phash_dist |-> 10, near |-> FALSE],
     [m |-> 76, phash_dist |-> 21, near |-> TRUE]}

Corpora == SeqsUpTo(SampleRows, MaxCorpus)

\* a direct call of _find_all_matches
find_all_matches_call ==
    /\ OutsideMatch
    /\ det.op = "find" /\ det.stage = "start"
    /\ det' = [det EXCEPT
           !.all_matches = find_all_matches(det.all_assets, det.watermark_info, det.top_k),
           !.stage = "done"]

\* detect_watermark l.400-602: the quick pre-check on the fingerprint
\* strength, then _find_all_matches with watermark_info = None and the
\* default top_k, then the verdict
detect_watermark ==
    /\ OutsideMatch
    /\ det.op = "detect" /\ det.stage = "start"
    /\ IF det.fingerprint_strength < MIN_STRENGTH
       THEN det' = [det EXCEPT !.stage = "done"]
       ELSE LET all_matches == find_all_matches(det.all_assets, FALSE, TOP_K_DEFAULT)
                has_db_match == HasDbMatch(all_matches)
                very_strong == det.fingerprint_strength >= VERY_STRONG
            IN  det' = [det EXCEPT
                    !.all_matches = all_matches,
                    !.has_db_match = has_db_match,
                    !.match_found = (all_matches # <<>>
                                     /\ all_matches[1].similarity >= DB_MATCH_FLOOR * 100),
                    !.matched_asset = IF has_db_match THEN all_matches[1].id ELSE 0,
                    !.detection_source = IF has_db_match THEN "db_match"
                                         ELSE IF very_strong THEN "fingerprint_signal"
                                         ELSE "none",
                    !.has_watermark = (has_db_match \/ very_strong),
                    !.match_candidates =
                        SubSeq(all_matches, 1, Min(CANDIDATES_SHOWN, Len(all_matches))),
                    !.stage = "done"]

InitMatch ==
    /\ \/ \E c \in Corpora, wi \in BOOLEAN, k \in 1..MaxCorpus :
             det = [op |-> "find", all_assets |-> c, top_k |-> k, watermark_info |-> wi,
                    fingerprint_strength |-> 0, stage |-> "start", all_matches |-> <<>>,
                    has_db_match |-> FALSE, match_found |-> FALSE, matched_asset |-> 0,
                    detection_source |-> "none", has_watermark |-> FALSE,
                    match_candidates |-> <<>>]
       \/ \E c \in Corpora, fs \in {MIN_STRENGTH - 1, MIN_STRENGTH, VERY_STRONG} :
             det = [op |-> "detect", all_assets |-> c, top_k |-> TOP_K_DEFAULT,
                    watermark_info |-> FALSE,
                    fingerprint_strength |-> fs, stage |-> "start", all_matches |-> <<>>,
                    has_db_match |-> FALSE, match_found |-> FALSE, matched_asset |-> 0,
                    detection_source |-> "none", has_watermark |-> FALSE,
                    match_candidates |-> <<>>]
    /\ QueueAtRest
    /\ QuotaAtRest
    /\ GuardAtRest
    /\ ProfilesAtRest
    /\ CacheAtRest
    /\ db = <<>>
    /\ EngineAtRest
    /\ PlaneAtRest
    /\ PureAtRest

NextMatch ==
    \/ find_all_matches_call
    \/ detect_watermark

SpecMatch == InitMatch /\ [][NextMatch]_vars

\* ============ the duplicate guard (enhanced_watermark.py, embed_watermark)
\* An image is what quick_extract_dct reads from it: a string of hex
\* characters, one per four blocks, eight for QUICK_BITS bits.
OutsideGuard == UNCHANGED <<cacheVars, engineVars, blockVars, pureVars, task_queue, quotaVars, det, profileVars>>

\* str.split("|")
RECURSIVE Split(_, _)
Split(str, part) ==
    IF str = <<>> THEN <<part>>
    ELSE IF Head(str) = "|" THEN <<part>> \o Split(Tail(str), <<>>)
         ELSE Split(Tail(str), Append(part, Head(str)))

\* int(parts[2]) succeeds: the part is a decimal number
IsNumber(part) ==
    /\ part # <<>>
    /\ \A i \in 1..Len(part) : part[i] \in {"0", "1", "2", "3", "4", "5", "6", "7", "8", "9"}

\* _extract_enhanced_watermark with quick=True, l.250-255: the extracted
\* string when it has at least 8 characters, otherwise None (<<>> here, with
\* found = FALSE)
extract_enhanced_watermark_quick(extracted) ==
    IF Len(extracted) >= MIN_QUICK_LENGTH
    THEN [found |-> TRUE, data |-> extracted]
    ELSE [found |-> FALSE, data |-> <<>>]

\* _decode_watermark_info, l.181-195: a WatermarkInfo only for at least five
\* "|"-separated parts with a numeric third part
decode_watermark_info(data) ==
    LET parts == Split(data, <<>>)
    IN  IF Len(parts) >= MIN_INFO_PARTS /\ IsNumber(parts[3])
        THEN [found |-> TRUE, fingerprint |-> parts[1]]
        ELSE [found |-> FALSE, fingerprint |-> <<>>]

\* check_existing_watermark with quick=True, l.210-237: has_watermark
check_existing_watermark(extracted) ==
    LET extracted_data == extract_enhanced_watermark_quick(extracted)
        info == decode_watermark_info(extracted_data.data)
    IN  /\ extracted_data.found
        /\ info.found
        /\ Len(Strip0(info.fingerprint)) >= MIN_FINGERPRINT_STRENGTH

\* what a quick extraction reads from images nobody marked
UnmarkedImages ==
    {[i \in 1..8 |-> "0"], <<"0", "0", "0">>, <<>>,
     <<"0", "0", "4", "0", "0", "0", "0", "1">>}

\* the first eight characters of fingerprints _generate_enhanced_fingerprint
\* may produce
SampleMarks ==
    {<<"a", "5", "a", "5", "a", "5", "a", "5">>,
     <<"3", "f", "9", "c", "0", "1", "7", "e">>,
     <<"0", "0", "d", "2", "4", "b", "8", "6">>,
     <<"f", "f", "f", "f", "f", "f", "f", "f">>}

\* embed_watermark, l.298-383: the guard, then the embedding.  After a
\* successful call the image is the output file, from which a quick
\* extraction reads the start of the fingerprint just embedded.
service_embed_watermark(force, fp) ==
    /\ OutsideGuard
    /\ dup.calls < MaxEmbedCalls
    /\ LET has_watermark == check_existing_watermark(dup.image)
       IN  IF has_watermark /\ ~force
           THEN dup' = [dup EXCEPT
                    !.calls = @ + 1,
                    !.result = [called |-> TRUE, force |-> force, was_marked |-> dup.marked,
                                success |-> FALSE, error |-> "WATERMARK_EXISTS",
                                is_override |-> FALSE]]
           ELSE dup' = [dup EXCEPT
                    !.calls = @ + 1,
                    !.embedded = Append(@, fp),
                    !.image = fp,
                    !.marked = TRUE,
                    !.result = [called |-> TRUE, force |-> force, was_marked |-> dup.marked,
                                success |-> TRUE, error |-> "",
                                is_override |-> has_watermark]]

InitGuard ==
    /\ \E img \in UnmarkedImages :
          dup = [image |-> img, marked |-> FALSE, calls |-> 0, embedded |-> <<>>,
                 result |-> NoResult]
    /\ QueueAtRest
    /\ QuotaAtRest
    /\ MatchAtRest
    /\ ProfilesAtRest
    /\ CacheAtRest
    /\ db = <<>>
    /\ EngineAtRest
    /\ PlaneAtRest
    /\ PureAtRest

NextGuard ==
    \E force \in BOOLEAN, fp \in SampleMarks : service_embed_watermark(force, fp)

SpecGuard == InitGuard /\ [][NextGuard]_vars

\* ======== the profile cache (enhanced_watermark.py, _get_cached_profiles)
OutsideProfiles ==
    UNCHANGED <<assets_cache, db, sb_client, reader, embedPc, invalidatedPending,
                injSince, lastGood, seededByInject,
                engineVars, blockVars, pureVars, task_queue, quotaVars, det, dup>>

Owners == {"u1", "u2"}

\* the profiles table: display_name by id
PROFILES == [u \in Owners |-> IF u = "u1" THEN "Ann" ELSE "Bo"]

\* `_profile_cache.get("data") or {}`
StaleProfiles(cache) == DictGet(cache, "data", EmptyDict)

\* _get_cached_profiles, l.60-81.  outcome: what the persistence layer does
\* when it is asked ("ok", "no_client", "error")
get_cached_profiles(user_ids, outcome) ==
    /\ OutsideProfiles
    /\ UNCHANGED now
    /\ IF DictHas(profile_cache, "data") /\ now < DictGet(profile_cache, "expires", 0)
       THEN /\ profile_call' = [called |-> TRUE, user_ids |-> user_ids, path |-> "hit",
                                result |-> profile_cache["data"],
                                cached_for |-> profile_call.cached_for]
            /\ UNCHANGED profile_cache
       ELSE IF outcome # "ok" \/ user_ids = {}
       THEN /\ profile_call' = [called |-> TRUE, user_ids |-> user_ids, path |-> "stale",
                                result |-> StaleProfiles(profile_cache),
                                cached_for |-> profile_call.cached_for]
            /\ UNCHANGED profile_cache
       ELSE LET profile_map == [u \in user_ids \cap DOMAIN PROFILES |-> PROFILES[u]]
            IN  /\ profile_cache' = DictSet(DictSet(profile_cache, "data", profile_map),
                                            "expires", now + PROFILE_CACHE_TTL)
                /\ profile_call' = [called |-> TRUE, user_ids |-> user_ids,
                                    path |-> "store", result |-> profile_map,
                                    cached_for |-> user_ids]

\* time passes
profile_tick ==
    /\ OutsideProfiles
    /\ now + ProfileTick <= MaxProfileTime
    /\ now' = now + ProfileTick
    /\ UNCHANGED profileVars

InitProfiles ==
    /\ ProfilesAtRest
    /\ QueueAtRest
    /\ QuotaAtRest
    /\ MatchAtRest
    /\ GuardAtRest
    /\ CacheAtRest
    /\ db = <<>>
    /\ EngineAtRest
    /\ PlaneAtRest
    /\ PureAtRest

NextProfiles ==
    \/ \E user_ids \in SUBSET Owners, outcome \in {"ok", "no_client", "error"} :
          get_cached_profiles(user_ids, outcome)
    \/ profile_tick

SpecProfiles == InitProfiles /\ [][NextProfiles]_vars

InitEngine ==
    /\ EngineAtRest
    /\ ServiceAtRest
    /\ CacheAtRest
    /\ db = <<>>
    /\ PlaneAtRest
    /\ PureAtRest

NextEngine ==
    \/ \E t \in Threads, img \in Images : adaptive_extract_primary(t, img)
    \/ \E t \in Threads : adaptive_check(t)
    \/ \E t \in Threads : adaptive_set_legacy(t)
    \/ \E t \in Threads : adaptive_probe(t)
    \/ \E t \in Threads : adaptive_finally(t)
    \/ \E t \in Threads, img \in Images, f \in SampleFingerprints :
            engine_embed_dct(t, img, f)
    \/ \E t \in Threads, img \in Images : engine_quick_extract(t, img)
    \/ \E t \in Threads : request_done(t)

SpecEngine == InitEngine /\ [][NextEngine]_vars

InitBlocks ==
    /\ \E h \in 0..MaxDim, w \in 0..MaxDim, bs \in 1..MaxBs,
          n1 \in 0..MaxCount, n2 \in 0..MaxCount :
          plane = [h |-> h, w |-> w, bs |-> bs, n_embed |-> n1, n_extract |-> n2,
                   embedded |-> FALSE, extracted |-> FALSE,
                   embed_positions |-> <<>>, extract_positions |-> <<>>]
    /\ EngineAtRest
    /\ ServiceAtRest
    /\ CacheAtRest
    /\ db = <<>>
    /\ PureAtRest

NextBlocks == plan_embed \/ plan_extract

SpecBlocks == InitBlocks /\ [][NextBlocks]_vars

\* The cache and its callers leave the engine and the block planner alone.
OutsideCache == UNCHANGED <<engineVars, blockVars, pureVars, serviceVars>>

\* ------------------------------------------------------ detection readers

\* The reader's record once _get_cached_assets has returned `lst` to
\* _find_all_matches (l.695).  `isLive` says that the list returned is the
\* very list object the cache holds, so that a later append reaches it.
Returned(rd, path, lst, isLive, seen) ==
    [rd EXCEPT !.pc = "iter", !.path = path, !.list = lst, !.aliased = isLive,
               !.snap = lst, !.idx = 0, !.rows = <<>>, !.at = now,
               !.missingInj = injSince \ Range(lst), !.corpus = seen]

Acked == {r \in NewRecords : embedPc[r] # "idle"}

\* Every other reader keeps the list object it holds; the cache now refers
\* to another object (or to none).
Detach(rds, keep) ==
    [d \in Readers |-> IF d \in keep THEN rds[d] ELSE [rds[d] EXCEPT !.aliased = FALSE]]

\* An append to the live list is seen through every reference to it.
AppendLive(rds, r) ==
    [d \in Readers |-> IF rds[d].aliased
                       THEN [rds[d] EXCEPT !.list = Append(@, r)]
                       ELSE rds[d]]

\* _get_cached_assets, l.36-44: the hit test, and on a miss the service client
get_cached_assets_call(d) ==
    /\ reader[d].pc = "idle"
    /\ OutsideCache
    /\ LET rd == [reader[d] EXCEPT !.afterInv = invalidatedPending,
                                   !.ackedAtStart = Acked]
       IN  IF CacheHit(assets_cache, now)
           THEN /\ reader' = [reader EXCEPT ![d] =
                        Returned(rd, "hit", assets_cache["data"], TRUE, db)]
                /\ UNCHANGED sb_client
           ELSE \/ /\ reader' = [reader EXCEPT ![d] = [rd EXCEPT !.pc = "query"]]
                   /\ sb_client' = TRUE
                \/ /\ ~sb_client        \* create_client failed: `if not sb`
                   /\ reader' = [reader EXCEPT ![d] =
                        Returned(rd, "fail", StaleOrEmpty(assets_cache),
                                 StaleIsLive(assets_cache), db)]
                   /\ UNCHANGED sb_client
    /\ invalidatedPending' = FALSE
    /\ UNCHANGED <<now, assets_cache, db, embedPc, injSince, lastGood, seededByInject>>

\* l.47-50: the select is answered with the rows of the table at that moment,
\* or it raises and the except branch returns what the cache holds (l.55-57)
get_cached_assets_query(d) ==
    /\ reader[d].pc = "query"
    /\ OutsideCache
    /\ \/ reader' = [reader EXCEPT ![d] = [@ EXCEPT !.pc = "store", !.rows = db]]
       \/ reader' = [reader EXCEPT ![d] =
              Returned(@, "fail", StaleOrEmpty(assets_cache),
                       StaleIsLive(assets_cache), db)]
    /\ UNCHANGED <<now, assets_cache, db, sb_client, embedPc,
                   invalidatedPending, injSince, lastGood, seededByInject>>

\* l.50-54: data = res.data or []; store it, re-arm the expiry, return it
get_cached_assets_store(d) ==
    /\ reader[d].pc = "store"
    /\ OutsideCache
    /\ assets_cache' = StoreReload(assets_cache, reader[d].rows, now)
    /\ reader' = [Detach(reader, {}) EXCEPT ![d] =
           Returned(reader[d], "reload", reader[d].rows, TRUE, reader[d].rows)]
    /\ injSince' = {}
    /\ lastGood' = reader[d].rows
    /\ seededByInject' = FALSE
    /\ UNCHANGED <<now, db, sb_client, embedPc, invalidatedPending>>

\* _find_all_matches, l.696-751: `for row in all_assets` visits list[idx]
\* for as long as idx < len(list), the length being read at every step
find_all_matches_next(d) ==
    /\ reader[d].pc = "iter"
    /\ OutsideCache
    /\ IF reader[d].idx < Len(reader[d].list)
       THEN reader' = [reader EXCEPT ![d].idx = @ + 1]
       ELSE reader' = [reader EXCEPT ![d] = IdleReader]
    /\ UNCHANGED <<now, assets_cache, db, sb_client, embedPc,
                   invalidatedPending, injSince, lastGood, seededByInject>>

\* ---------------------------------------------------- the /embed endpoint
\* embed_watermark, l.317-407, for a logged-in user whose embedding succeeded:
\* inject the new record into the cache, answer, and schedule the persist task
embed_watermark(r) ==
    /\ embedPc[r] = "idle"
    /\ OutsideCache
    /\ assets_cache' = InjectAsset(assets_cache, r, now)
    /\ reader' = IF DictHas(assets_cache, "data") THEN AppendLive(reader, r)
                                                  ELSE Detach(reader, {})
    /\ embedPc' = [embedPc EXCEPT ![r] = "returned"]
    /\ injSince' = injSince \cup {r}
    /\ seededByInject' = (seededByInject \/ ~DictHas(assets_cache, "data"))
    /\ UNCHANGED <<now, db, sb_client, invalidatedPending, lastGood>>

\* _background_persist, l.350-359: no client, no persist; else invalidate
background_persist_invalidate(r) ==
    /\ embedPc[r] = "returned"
    /\ OutsideCache
    /\ \/ /\ ~sb_client
          /\ embedPc' = [embedPc EXCEPT ![r] = "done"]
          /\ UNCHANGED <<assets_cache, reader, sb_client, invalidatedPending,
                         seededByInject>>
       \/ /\ sb_client' = TRUE
          /\ assets_cache' = InvalidateAssets(assets_cache)
          /\ reader' = Detach(reader, {})
          /\ invalidatedPending' = TRUE
          /\ seededByInject' = FALSE
          /\ embedPc' = [embedPc EXCEPT ![r] = "invalidated"]
    /\ UNCHANGED <<now, db, injSince, lastGood>>

\* _background_persist, l.362-370: the insert, which may raise (l.398)
background_persist_insert(r) ==
    /\ embedPc[r] = "invalidated"
    /\ OutsideCache
    /\ \/ db' = Append(db, r)
       \/ UNCHANGED db
    /\ embedPc' = [embedPc EXCEPT ![r] = "done"]
    /\ UNCHANGED <<now, assets_cache, sb_client, reader,
                   invalidatedPending, injSince, lastGood, seededByInject>>

Tick ==
    /\ now + TickStep <= MaxTime
    /\ OutsideCache
    /\ now' = now + TickStep
    /\ UNCHANGED <<assets_cache, db, sb_client, reader, embedPc,
                   invalidatedPending, injSince, lastGood, seededByInject>>

InitCache ==
    /\ CacheAtRest
    /\ db \in {<<>>, <<"r0">>}
    /\ EngineAtRest
    /\ ServiceAtRest
    /\ PlaneAtRest
    /\ PureAtRest

NextCache ==
    \/ \E d \in Readers : get_cached_assets_call(d)
    \/ \E d \in Readers : get_cached_assets_query(d)
    \/ \E d \in Readers : get_cached_assets_store(d)
    \/ \E d \in Readers : find_all_matches_next(d)
    \/ \E r \in NewRecords : embed_watermark(r)
    \/ \E r \in NewRecords : background_persist_invalidate(r)
    \/ \E r \in NewRecords : background_persist_insert(r)
    \/ Tick

SpecCache == InitCache /\ [][NextCache]_vars

\* ======================================================== corpus cache: claims

\* C1 (as claimed): a _get_cached_assets call that is the first to begin
\* after invalidate_assets_cache, and that does not end in a failed reload,
\* returns the rows of the persistence layer, whatever was injected in between.
C1_NextGetAfterInvalidateIsFresh ==
    \A d \in Readers :
        (reader[d].pc = "iter" /\ reader[d].afterInv /\ reader[d].path # "fail")
            => reader[d].snap = reader[d].corpus

\* C2 (as claimed): a _get_cached_assets call that returns without storing a
\* reload from persistence returns a list holding every record injected since
\* the last such store.
C2_InjectedSeenUntilReload ==
    \A d \in Readers :
        (reader[d].pc = "iter" /\ reader[d].path \in {"hit", "fail"})
            => reader[d].missingInj = {}

\* C3 (as claimed): the list returned to a detection that began after /embed
\* answered success for an asset holds that asset, at every point of the
\* embed's background persist task (failed reloads set aside).
C3_NoDetectAfterEmbedMiss ==
    \A d \in Readers :
        (reader[d].pc = "iter" /\ reader[d].path # "fail")
            => reader[d].ackedAtStart \subseteq Range(reader[d].snap)

\* C4: a call returns the cached list, leaving cache, table and client alone,
\* exactly when data is cached and the clock is before its expiry; otherwise
\* it goes to the persistence layer, and a reload that succeeds returns all
\* rows of the table, stores them and sets the expiry to now + 120.
C4_HitOnlyWhileUnexpired ==
    [][\A d \in Readers :
        /\ (reader[d].pc = "idle" /\ reader'[d].pc # "idle") =>
              IF DictHas(assets_cache, "data") /\ DictHas(assets_cache, "expires")
                 /\ now < assets_cache["expires"]
              THEN /\ reader'[d].pc = "iter" /\ reader'[d].path = "hit"
                   /\ reader'[d].list = assets_cache["data"]
                   /\ assets_cache' = assets_cache /\ db' = db
                   /\ sb_client' = sb_client
              ELSE /\ reader'[d].path # "hit"
                   /\ reader'[d].pc = "query" \/ reader'[d].path = "fail"
        /\ (reader[d].pc = "query" /\ reader'[d].pc = "store") =>
              reader'[d].rows = db
        /\ (reader[d].pc = "store" /\ reader'[d].pc # "store") =>
              /\ reader'[d].pc = "iter" /\ reader'[d].path = "reload"
              /\ reader'[d].list = reader[d].rows
              /\ assets_cache'["data"] = reader[d].rows
              /\ assets_cache'["expires"] = now + 120
    ]_vars

\* C4 witness: a hit served, after the first 120 s, on rows that a reload
\* stored.
C4_Witness ==
    \E d \in Readers :
        /\ reader[d].pc = "iter" /\ reader[d].path = "hit"
        /\ reader[d].at >= ASSETS_CACHE_TTL
        /\ reader[d].snap = lastGood /\ lastGood # <<>>

\* C5 (as claimed): a call that ends in a failed reload returns a list that
\* holds the rows last loaded from persistence, also after expiry and after an
\* invalidate.
C5_FailedReloadReturnsLastGood ==
    [][\A d \in Readers :
        (reader[d].pc # "iter" /\ reader'[d].pc = "iter" /\ reader'[d].path = "fail")
            => Range(lastGood) \subseteq Range(reader'[d].list)
    ]_vars

\* C6 (as claimed): the list a reader obtained stays as it was when the reader
\* got it, for as long as the reader iterates over it.
C6_SnapshotReads ==
    \A d \in Readers :
        reader[d].pc = "iter" => reader[d].list = reader[d].snap

\* =================================================== fingerprint engine: claims

\* An engine that one request at a time uses, as the engine detect_video
\* creates for itself (video_watermark.py, l.88).
NextEngineOwn ==
    \/ \E img \in Images : adaptive_extract_primary("t1", img)
    \/ adaptive_check("t1")
    \/ adaptive_set_legacy("t1")
    \/ adaptive_probe("t1")
    \/ adaptive_finally("t1")
    \/ \E img \in Images, f \in SampleFingerprints : engine_embed_dct("t1", img, f)
    \/ \E img \in Images : engine_quick_extract("t1", img)
    \/ request_done("t1")

SpecEngineOwn == InitEngine /\ [][NextEngineOwn]_vars

\* C7 (as claimed): on the shared engine every embed_dct, every plain
\* extract_dct and every first extraction of an adaptive call uses the
\* configured step 30, also while another request probes the legacy steps.
C7_SharedStepNotDisturbed ==
    \A t \in Threads :
        /\ (thr[t].pc = "done" /\ thr[t].op \in {"embed_dct", "extract_dct"})
              => thr[t].q_used = QIM_STEP_DEFAULT
        /\ (thr[t].pc # "idle" /\ thr[t].op = "adaptive")
              => thr[t].q1 = QIM_STEP_DEFAULT

\* C8: the fingerprint extract_dct_adaptive returns is at least as strong as
\* the extraction of the same image with the step the engine held when the
\* call made its first extraction.
C8_AdaptiveNeverRegresses ==
    \A t \in Threads :
        (thr[t].pc = "done" /\ thr[t].op = "adaptive")
            => Strength(thr[t].result_fp)
                 >= Strength(extract_dct(thr[t].image, DETECT_LENGTH, thr[t].q1))

\* C8 witness: a call that went down the ladder and came back with a
\* fingerprint strictly stronger than its first extraction.
C8_Witness ==
    \E t \in Threads :
        /\ thr[t].pc = "done" /\ thr[t].op = "adaptive"
        /\ thr[t].probed = LEGACY_QIM_STEPS
        /\ thr[t].q1 = QIM_STEP_DEFAULT
        /\ Strength(thr[t].result_fp)
             > Strength(extract_dct(thr[t].image, DETECT_LENGTH, thr[t].q1))

\* C9 (as claimed): a finished adaptive call, with q the step the engine held
\* when it began, returns the extraction under q together with q, and probes
\* nothing, if that extraction has strength 15 or more; otherwise it has
\* probed the ladder in order and returns the strongest extraction with the
\* step that produced it, the one under q on ties.
C9_ControllerStateMachine ==
    \A t \in Threads :
        (thr[t].pc = "done" /\ thr[t].op = "adaptive") =>
            LET q == thr[t].q1
                p == extract_dct(thr[t].image, DETECT_LENGTH, q)
            IN  IF Strength(p) >= MIN_STRENGTH
                THEN /\ thr[t].result_fp = p /\ thr[t].result_q = q
                     /\ thr[t].probed = <<>>
                ELSE /\ thr[t].probed = LEGACY_QIM_STEPS
                     /\ <<thr[t].result_fp, thr[t].result_q>>
                           = BestOfLadder(thr[t].image, p, q, 1)

\* ======================================================== block planner: claims

\* C10: of the position lists embed_dct and extract_dct compute for one plane
\* and block size, the one asked for fewer bits is a prefix of the other: the
\* k-th position is the same in both wherever both have one.
C10_PositionsArePrefixes ==
    (plane.embedded /\ plane.extracted) =>
        LET e == plane.embed_positions
            x == plane.extract_positions
        IN  /\ \A k \in 1..Min(Len(e), Len(x)) : e[k] = x[k]
            /\ (plane.n_embed <= plane.n_extract) => Len(e) <= Len(x)
            /\ (plane.n_extract <= plane.n_embed) => Len(x) <= Len(e)

\* C10 witness: a quick extraction of fewer bits than were embedded, on a
\* plane whose embedded positions run over more than one block row.
C10_Witness ==
    /\ plane.embedded /\ plane.extracted
    /\ plane.n_extract < plane.n_embed
    /\ Len(plane.extract_positions) = plane.n_extract
    /\ Len(plane.extract_positions) >= 2
    /\ Len(plane.embed_positions) = plane.n_embed
    /\ plane.embed_positions[plane.n_embed][1] > 0

\* C11 (as claimed): the number of positions _block_positions returns is
\* min(count, floor(h/bs) * floor(w/bs)).
C11_AsManyAsFit ==
    plane.embedded =>
        Len(plane.embed_positions)
            = Min(plane.n_embed, (plane.h \div plane.bs) * (plane.w \div plane.bs))

\* =================================================================== QIM: claims

\* C12: the bit extracted from an embedded coefficient is the bit embedded,
\* for every coefficient (negative ones too), both bits and every step, when
\* the error added in between is smaller in magnitude than a quarter step.
C12_ExtractInvertsEmbed ==
    (qim.stage = "extracted" /\ 4 * qim.err < qim.Q /\ 4 * qim.err > -qim.Q)
        => qim.out = qim.bit

\* C12 witness: a negative coefficient, bit 1, step 30, error 7 (just below
\* 7.5), extracted as 1.
C12_Witness ==
    /\ qim.stage = "extracted"
    /\ qim.c < 0 /\ qim.bit = 1 /\ qim.Q = QIM_STEP_DEFAULT /\ qim.err = 7
    /\ qim.cr # qim.cw /\ qim.out = 1

\* ============================================================ round trip: claims

\* C13 (as claimed): a 64-character fingerprint embedded in an image with 256
\* blocks available and extracted again at length 256 has similarity of at
\* least 0.85 with the fingerprint embedded.
C13_RoundTripSimilarity ==
    rt.stage = "compared" => 100 * rt.similarity[1] >= 85 * rt.similarity[2]

\* ============================================================ text codec: claims
MarkerFree(text) == StripMarkers(text) = text

\* C14 (as claimed): for a non-empty text without marker characters and any
\* payload, extract(embed(text, payload)) is the payload.
C14_TextRoundTrip ==
    (tw.stage = "roundtrip" /\ tw.input # <<>> /\ MarkerFree(tw.input))
        => tw.extracted = tw.payload

\* C15 (as claimed): extract of a text without boundary marker is "No
\* watermark found", of a text with exactly one boundary marker "Corrupted
\* watermark", and the two sentinels differ.
C15_TextSentinels ==
    tw.stage = "extracted" =>
        LET joins == Cardinality({i \in 1..Len(tw.input) : tw.input[i] = ZW_JOIN})
        IN  /\ joins = 0 => tw.extracted = NO_WATERMARK
            /\ joins = 1 => tw.extracted = CORRUPTED_WATERMARK
            /\ NO_WATERMARK # CORRUPTED_WATERMARK

\* C16: for a text without marker characters and any payload, the embedded
\* text without its marker characters is the text, and the first marker
\* character comes after at most one visible character.
C16_VisibleTextUnchanged ==
    (tw.stage = "embedded" /\ MarkerFree(tw.input)) =>
        /\ StripMarkers(tw.marked) = tw.input
        /\ \A i \in 1..Len(tw.marked) :
              tw.marked[i] \in {ZW_SPA, ZW_NON, ZW_JOIN}
                  => \E k \in 1..2 : k <= i /\ tw.marked[k] = ZW_JOIN

\* C16 witness: a text of several visible characters with a payload embedded
\* after its first character.
C16_Witness ==
    /\ tw.stage = "embedded" /\ MarkerFree(tw.input)
    /\ Len(tw.input) >= 3 /\ tw.payload # <<>>
    /\ tw.marked[1] = tw.input[1] /\ tw.marked[2] = ZW_JOIN
    /\ Len(tw.marked) = Len(tw.input) + 2 + 8 * Len(tw.payload)

\* ============================================================ converters: claims

\* C17: a lower-case hex string turned into bits and back is the string it
\* was, the bits being four per character; a bit string turned into hex gives
\* floor(len / 4) characters, those of its full groups of four.
C17_HexBinaryBijection ==
    /\ (hx.mode = "hex" /\ hx.stage \in {"binary", "back"})
          => Len(hx.binary) = 4 * Len(hx.input)
    /\ (hx.mode = "hex" /\ hx.stage = "back") => hx.out = hx.input
    /\ (hx.mode = "bits" /\ hx.stage = "packed") =>
          /\ Len(hx.out) = Len(hx.input) \div 4
          /\ \A k \in 1..Len(hx.out) :
                HexValue(hx.out[k]) = 8 * hx.input[4*k - 3] + 4 * hx.input[4*k - 2]
                                      + 2 * hx.input[4*k - 1] + hx.input[4*k]

\* C17 witness: a string of three different hex characters that came back.
C17_Witness ==
    /\ hx.mode = "hex" /\ hx.stage = "back"
    /\ Len(hx.input) = 3 /\ hx.input[1] # hx.input[2] /\ hx.input[2] # hx.input[3]
    /\ hx.input[1] = "e" /\ hx.out = hx.input

\* bit i (from 1) of a hex fingerprint, by the value of its character
BitOfHex(fp, i) ==
    LET v == HexValue(Lower(fp[((i - 1) \div 4) + 1]))
        k == (i - 1) % 4
    IN  IF k = 0 THEN v \div 8 ELSE IF k = 1 THEN (v \div 4) % 2
        ELSE IF k = 2 THEN (v \div 2) % 2 ELSE v % 2

\* C18: the similarity is 0 when a fingerprint is empty or the original has
\* fewer than 8 characters; otherwise it is the number of indices at which the
\* two bit strings agree over the length of the shorter one; it lies in
\* [0, 1] and is 1 for two identical fingerprints of 8 characters or more.
C18_SimilarityIsMatchFraction ==
    sim.stage = "compared" =>
        LET e == sim.extracted
            o == sim.original
            n == 4 * Min(Len(e), Len(o))
        IN  /\ (e = <<>> \/ o = <<>> \/ Len(o) < 8) => sim.result[1] = 0
            /\ (e # <<>> /\ Len(o) >= 8) =>
                  sim.result = <<Cardinality({i \in 1..n : BitOfHex(e, i) = BitOfHex(o, i)}), n>>
            /\ 0 <= sim.result[1] /\ sim.result[1] <= sim.result[2] /\ sim.result[2] > 0
            /\ (e = o /\ Len(o) >= 8) => sim.result[1] = sim.result[2]

\* C18 witness: an extracted fingerprint shorter than the original, agreeing
\* with it in some bits and not in others.
C18_Witness ==
    /\ sim.stage = "compared"
    /\ Len(sim.original) >= 8 /\ sim.extracted # <<>>
    /\ Len(sim.extracted) < Len(sim.original)
    /\ sim.result[2] = 4 * Len(sim.extracted)
    /\ 0 < sim.result[1] /\ sim.result[1] < sim.result[2]

\* ================================================================ video: claims

\* C19 (as claimed): detect_video returns the fingerprint of the first frame,
\* among those whose index is a multiple of detect_step and below max_frames,
\* whose extraction has strength 15 or more, having read no frame after it,
\* and reports no watermark and an empty fingerprint when there is none.
C19_FirstHit ==
    (vid.op = "detect" /\ vid.pc = "returned") =>
        LET Fp(i) == extract_dct_adaptive(vid.frames[i + 1], QIM_STEP_DEFAULT)[1]
            strong == {i \in 0..(Len(vid.frames) - 1) :
                          /\ i % vid.step = 0 /\ i < vid.max_frames
                          /\ Strength(Fp(i)) >= MIN_STRENGTH}
        IN  IF strong = {}
            THEN ~vid.has_watermark /\ vid.extracted_fingerprint = <<>>
            ELSE LET first == CHOOSE i \in strong : \A k \in strong : i <= k
                 IN  /\ vid.has_watermark
                     /\ vid.extracted_fingerprint = Fp(first)
                     /\ vid.reads = first + 1

\* C20: embed_video has written one frame for each frame read, in order,
\* frame i through embed_dct with the fingerprint when i mod embed_step = 0
\* and as it was otherwise; it never processes more than max_frames frames,
\* and it returns after min(frames available, max_frames) frames with
\* watermarked_frames = ceil(total_frames_processed / embed_step).
C20_EmbedVideoFrames ==
    (vid.op = "embed" /\ vid.pc # "start") =>
        /\ Len(vid.out) = vid.reads /\ vid.frame_idx = vid.reads
        /\ vid.frame_idx <= vid.max_frames
        /\ \A i \in 0..(vid.reads - 1) :
              vid.out[i + 1] =
                  IF i % vid.step = 0
                  THEN [marked |-> TRUE,
                        frame |-> embed_dct(vid.frames[i + 1], vid.fingerprint,
                                            QIM_STEP_DEFAULT)]
                  ELSE [marked |-> FALSE, frame |-> vid.frames[i + 1]]
        /\ vid.pc = "returned" =>
              /\ vid.frame_idx = Min(Len(vid.frames), vid.max_frames)
              /\ vid.watermarked_frames
                    = (vid.frame_idx + vid.step - 1) \div vid.step

\* C20 witness: a video cut at max_frames, with embedded frames and frames
\* passed through between them.
C20_Witness ==
    /\ vid.op = "embed" /\ vid.pc = "returned"
    /\ vid.max_frames < Len(vid.frames) /\ vid.frame_idx = vid.max_frames
    /\ vid.step = 2 /\ vid.frame_idx >= 3
    /\ vid.watermarked_frames = 2
    /\ vid.out[1].marked /\ ~vid.out[2].marked /\ vid.out[3].marked
    /\ vid.out[1].frame # vid.frames[1]

\* ================================================== second round of claims

\* C25: a list _block_positions returns is in strictly increasing row-major
\* order, its coordinates are multiples of bs, every block lies inside the
\* plane, no two blocks overlap, and it is empty when h <= bs or w <= bs.
C25_PositionsWellFormed ==
    \A ps \in {plane.embed_positions, plane.extract_positions} :
        /\ \A k \in 1..Len(ps) :
              /\ ps[k][1] % plane.bs = 0 /\ ps[k][2] % plane.bs = 0
              /\ ps[k][1] >= 0 /\ ps[k][2] >= 0
              /\ ps[k][1] + plane.bs <= plane.h /\ ps[k][2] + plane.bs <= plane.w
        /\ \A k \in 1..(Len(ps) - 1) :
              \/ ps[k][1] < ps[k + 1][1]
              \/ ps[k][1] = ps[k + 1][1] /\ ps[k][2] < ps[k + 1][2]
        /\ \A k, m \in 1..Len(ps) :
              k # m => \/ ps[k][1] + plane.bs <= ps[m][1]
                       \/ ps[m][1] + plane.bs <= ps[k][1]
                       \/ ps[k][2] + plane.bs <= ps[m][2]
                       \/ ps[m][2] + plane.bs <= ps[k][2]
        /\ (plane.h <= plane.bs \/ plane.w <= plane.bs) => ps = <<>>

\* C25 witness: positions over two block rows and two block columns of
\* blocks larger than one pixel.
C25_Witness ==
    /\ plane.embedded /\ plane.bs >= 2
    /\ Len(plane.embed_positions) >= 4
    /\ plane.embed_positions[1] = <<0, 0>>
    /\ plane.embed_positions[2] = <<0, plane.bs>>
    /\ plane.embed_positions[3] = <<plane.bs, 0>>

\* C26 (as claimed): whenever no extract_dct_adaptive call is in progress on
\* the engine, its step is the configured 30.
C26_StepRestored ==
    (\A t \in Threads : thr[t].op = "adaptive" => thr[t].pc \in {"idle", "done"})
        => QIM_STEP = QIM_STEP_DEFAULT

\* C27 (as claimed): a _get_cached_assets call that finds a cached list
\* created by inject_asset_to_cache on a cache without data is not answered
\* from the cache: it goes to the persistence layer.
C27_SeededCacheIsReloaded ==
    [][\A d \in Readers :
        (reader[d].pc = "idle" /\ reader'[d].pc # "idle" /\ seededByInject)
            => reader'[d].path # "hit"
    ]_vars

\* C28 (as claimed): cancel_task returns True only for a PENDING or
\* PROCESSING task, and a task it returned True for stays CANCELLED from then
\* on; for a COMPLETED, FAILED or CANCELLED task it returns False.
C28_CancelIsFinal ==
    [][/\ \A id \in DOMAIN task_queue.tasks :
             task_queue.tasks[id].cancel_ok => task_queue'.tasks[id].status = "cancelled"
       /\ task_queue'.last_cancel.ret
             => task_queue'.last_cancel.was \in {"pending", "processing"}
       /\ task_queue'.last_cancel.was \in TERMINAL => ~task_queue'.last_cancel.ret
    ]_vars

\* C29 (as claimed): on a queue that from some point on stays started, with
\* workers and puts scheduled fairly, every submitted task eventually reaches
\* a terminal status, the tasks that were in flight at a stop() included.
C29_EveryTaskTerminates ==
    (<>[](task_queue.running)) =>
    \A id \in TaskIds :
        (id \in DOMAIN task_queue.tasks)
            ~> (/\ id \in DOMAIN task_queue.tasks
                /\ task_queue.tasks[id].status \in TERMINAL)

\* C30 (as claimed): once no /embed request is between its quota check and
\* the end of its background persist, the persisted quota_embed_used is the
\* initial value plus the number of successful requests, and it does not
\* exceed quota_embed_total.
C30_QuotaCountsEveryEmbed ==
    (\A r \in EmbedRequests : embed_req[r].pc \notin {"checked", "persist"})
        => /\ profiles.quota_embed_used
                = profiles.initial_used
                  + Cardinality({r \in EmbedRequests : embed_req[r].pc = "done"})
           /\ profiles.quota_embed_used <= profiles.quota_embed_total

\* C21 (as claimed): a detection reports a confirmed database match only
\* when the fingerprint similarity of its best candidate is at least 60%.
C21_ConfirmedOnlyAboveFloor ==
    (det.op = "detect" /\ det.stage = "done"
        /\ (det.match_found \/ det.matched_asset # 0 \/ det.detection_source = "db_match"))
        => /\ det.all_matches # <<>>
           /\ det.all_matches[1].fingerprint_sim >= DB_MATCH_FLOOR * 100

C24_DuplicateGuard ==
    (dup.result.called /\ dup.result.was_marked) =>
        /\ ~dup.result.force
              => (~dup.result.success /\ dup.result.error = "WATERMARK_EXISTS")
        /\ (dup.result.force /\ dup.result.success) => dup.result.is_override

\* C23 (as claimed): a _get_cached_profiles call answered from the cache is
\* answered with the map that was loaded for its own batch of owner ids, and
\* so with the display name of every requested owner that has a profile.
C23_ProfilesCachedPerBatch ==
    (profile_call.called /\ profile_call.path = "hit") =>
        /\ profile_call.cached_for = profile_call.user_ids
        /\ \A u \in profile_call.user_ids :
              DictHas(profile_call.result, u) /\ profile_call.result[u] = PROFILES[u]

=============================================================================
